---- MODULE Spec2Model ----
(***************************************************************************)
(* A model of agentbeam: the sender's ProviderMonitor, the collector and   *)
(* collection builder, the resumable Receiver, the session restore, the   *)
(* scratch-directory guard and the version-control steps of both sides.    *)
(* Each component has its own specification;                               *)
(* the variables of the components a specification does not run keep the   *)
(* value its Init gives them.                                              *)
(***************************************************************************)
EXTENDS Integers, Sequences, FiniteSets, TLC

VARIABLES
    \* ---- ProviderMonitor::monitor_until_complete (provider_monitor.rs)
    mp,                \* self.mp is Some: an indicator sink is configured
    monPc,             \* "off" | "recv" | "grace" | "done"
    monExit,           \* which return was taken: "none" | "ConnectionClosed" | "QueueClosed"
    monResult,         \* the returned Result: "none" | "Ok"
    connected,         \* let mut connected
    active_transfers,  \* let mut active_transfers: HashSet<u64>
    transfer_bars,     \* let mut transfer_bars: HashMap<u64, ProgressBar>
    finished_bars,     \* indicators closed by finish_with_message, in order
    permits,           \* the values sent on the events' `permitted` channels
    log,               \* the events self.receiver.recv() has yielded so far
    \* ---- Receiver::receive_from_ticket / download_blob (receiver.rs)
    rcv_mp,            \* self.mp is Some
    rcvPc,             \* the position in receive_from_ticket / download_blob
    rcvResult,         \* "none" | "Ok" | "Err"
    rcv_error,         \* the call whose failure the receiver returned, or "none"
    requested,         \* the byte ranges handed to execute_get
    written,           \* the files export_collection has written, as resolved paths
    local_complete,    \* "unknown" | "complete" | "incomplete": local.is_complete()
    local_size,        \* local.local_bytes()
    calls,             \* the store and network calls made so far, in order
    fetched,           \* the Progress items the fetch stream has yielded
    pending,           \* the offset tx.send(offset) is waiting to hand over (0: none)
    relay,             \* the contents of mpsc::channel::<u64>(32)
    tx_open,           \* tx has not been dropped
    progress_task,     \* "none" | "running" | "finished"
    task_current,      \* the relay task's `current`
    dl_bar,            \* the download indicator: [pos, updates, finished], when there is one
    stats,             \* "default" | "done"
    fetch_end,         \* how the fetch stream ended: "none" | "Done" | "None" | "Error"
    rcv_collection,    \* the entry names of the loaded Collection
    exp_idx,           \* export_collection's loop index
    exported,          \* the names whose export yielded Done
    \* ---- beam_session: collect_files, add_to_collection, create_collection
    workspace,         \* the regular files under the root (relative paths)
    ignored,           \* the files the ignore rules match
    claude_dir,        \* ~/.claude/projects/<slug> on the sender: exists, read_dir listing
    session,           \* claude_context.session: "None" | "Some"
    session_file,      \* the name of session.session_file, or "None"
    bld_mp,            \* create_collection's mp is Some
    sndPc,             \* the position in beam_session
    sndResult,         \* "none" | "Ok" | "Err"
    snd_error,         \* the call whose error beam_session returned, or "none"
    files,             \* the manifest: Vec<(String, PathBuf)>
    metadata,          \* the BeamMetadata handed to create_collection
    import_idx,        \* create_collection's loop index (from 1)
    collection_items,  \* create_collection's collection_items
    total_size,        \* create_collection's total_size
    file_sizes,        \* the sizes std::fs::metadata has returned, in order
    advisory,          \* the "Large workspace" advisory was printed
    collection,        \* the entries of the stored Collection
    \* ---- ClaudeContext::detect_session / restore (claude_session.rs)
    source_log,        \* the lines of the session log on the sender
    session_dir,       \* the receiver's session directory: id -> lines of <id>.jsonl
    claude_info,       \* ClaudeSessionInfo: original_session_id, entry_count
    rstPc,             \* "off" | "detect" | "restore"
    rst_result,        \* the last restore's Result: "none" | "Ok" | "Err"
    rst_error,         \* the last restore's error: "none" | "io" | "parse"
    new_session_id,    \* the last restore's new_session_id
    restores,          \* the restores run so far
    \* ---- beam_session / receive_session around AgentBeam (agent_beam.rs,
    \*      cleanup.rs, commands.rs)
    role,              \* "off" | "sender" | "receiver"
    connection_mode,   \* config.connection_mode
    force,             \* config.force
    runPc,             \* the position in beam_session / receive_session
    run_result,        \* the command's Result: "none" | "Ok" | "Err"
    temp_dir,          \* the scratch directory on disk: "absent" | "present"
    temp_dir_guard,    \* "unborn" | "held" | "dropped"
    should_cleanup,    \* TempDirGuard.should_cleanup
    keep_called,       \* keep_temp_dir was called
    remove_calls,      \* the remove_dir_all calls made on the scratch directory
    endpoint,          \* "unbound" | "bound" | "closed" | "dropped"
    run_size,          \* the total_size create_collection returned
    cleanup_warnings,  \* the "Failed to cleanup" warnings Drop has logged
    run_error,         \* which step's error the command returned, or "none"
    serve_log,         \* beam_session's steps after the size check, in order
    meta_session,      \* the target's metadata: "absent", "unreadable", or its claude_session "None" | "Some"
    session_source,    \* target_dir/.agentbeam/claude-session.jsonl exists
    session_restored,  \* ClaudeContext::restore has run and returned Ok
    \* ---- ClaudeContext::detect / get_git_state (claude_session.rs) and the
    \*      git block of receive_session (commands.rs)
    ws_git,            \* workspace/.git exists (sender)
    ctxPc,             \* "off" | "detect" | "done"
    detect_result,     \* detect's Result: "none" | "Ok" | "Err"
    detect_error,      \* which call's error detect returned: "none" | "git" | "session"
    git_lookups,       \* the outcomes of the git commands get_git_state ran
    git_context,       \* ClaudeContext's git_branch, git_has_changes, git_remote_url
    manifest,          \* the receiver's .agentbeam-metadata.json and its git_context
    target_git,        \* target_dir/.git exists (receiver)
    ginitPc,           \* "off" | "git" | "done"
    git_runs,          \* the git commands receive_session has run, in order
    ginit_result,      \* the Result of the git block: "none" | "Ok" | "Err"
    \* ---- ensure_gitignore_has_agentbeam_pattern (commands.rs)
    giPc,              \* "off" | "ready"
    gitignore_exists,  \* workspace_dir/.gitignore exists
    gitignore,         \* the text of workspace_dir/.gitignore
    gi_applies,        \* how many times the function has run
    gi_writes,         \* how many times std::fs::write has written the file
    gi_result          \* the Result of the last run: "none" | "Ok" | "Err"

monVars == <<mp, monPc, monExit, monResult, connected, active_transfers,
             transfer_bars, finished_bars, permits, log>>

rcvVars == <<rcv_mp, rcvPc, rcvResult, rcv_error, local_complete, local_size, calls,
             fetched, pending, relay, tx_open, progress_task, task_current,
             dl_bar, stats, fetch_end, rcv_collection, exp_idx, exported,
             requested, written>>

bldVars == <<workspace, ignored, claude_dir, session, session_file, bld_mp,
             sndPc, sndResult, snd_error, files,
             metadata, import_idx, collection_items, total_size, file_sizes, advisory,
             collection>>

rstVars == <<source_log, session_dir, claude_info, rstPc, rst_result, rst_error,
             new_session_id, restores>>

runVars == <<role, connection_mode, force, runPc, run_result, temp_dir,
             temp_dir_guard, should_cleanup, keep_called, remove_calls,
             endpoint, run_size, cleanup_warnings, run_error, serve_log,
             meta_session, session_source, session_restored>>

gitVars == <<ws_git, ctxPc, detect_result, detect_error, git_lookups, git_context,
             manifest, target_git, ginitPc, git_runs, ginit_result>>

ignVars == <<giPc, gitignore_exists, gitignore, gi_applies, gi_writes, gi_result>>

vars == <<monVars, rcvVars, bldVars, rstVars, runVars, gitVars, ignVars>>

\* The variables the monitor never touches.
nonMonVars == <<rcvVars, bldVars, rstVars, runVars, gitVars, ignVars>>

\* The variables the receiver never touches.
nonRcvVars == <<monVars, bldVars, rstVars, runVars, gitVars, ignVars>>

\* The variables packaging never touches.
nonBldVars == <<monVars, rcvVars, rstVars, runVars, gitVars, ignVars>>

\* The variables detect and restore never touch.
nonRstVars == <<monVars, rcvVars, bldVars, runVars, gitVars, ignVars>>

\* The variables a command's run around AgentBeam never touches.
nonRunVars == <<monVars, rcvVars, bldVars, rstVars, gitVars, ignVars>>

\* The variables the ignore-file step never touches.
nonIgnVars == <<monVars, rcvVars, bldVars, rstVars, runVars, gitVars>>

\* The variables the version-control steps never touch.
nonGitVars == <<monVars, rcvVars, bldVars, rstVars, runVars, ignVars>>

----------------------------------------------------------------------------
(* Bounds and input alphabets *)

\* The monitor is fed at most MaxEvents events before the queue closes.
MaxEvents == 3

ConnectionIds == {1, 2}
RequestIds == {1, 2}
TransferSizes == {2}
EndOffsets == {1, 2}

\* A function with the empty domain (an empty HashMap).
EmptyMap == [k \in {} |-> 0]

Last(s) == s[Len(s)]

----------------------------------------------------------------------------
(* ProviderMonitor::monitor_until_complete *)

\* iroh_blobs::provider::Event, the variants the monitor matches and one it
\* does not.
ProviderEvents ==
    [type : {"ClientConnected"}, connection_id : ConnectionIds]
    \cup [type : {"GetRequestReceived"}, request_id : {1}]
    \cup [type : {"TransferStarted"}, request_id : RequestIds, size : TransferSizes]
    \cup [type : {"TransferProgress"}, request_id : RequestIds, end_offset : EndOffsets]
    \cup [type : {"TransferCompleted"}, request_id : RequestIds]
    \cup [type : {"TransferAborted"}, request_id : RequestIds]
    \cup [type : {"ConnectionClosed"}, connection_id : ConnectionIds]
    \cup [type : {"TaggedBlobAdded"}]

\* The monitor does not run.
MonitorOff ==
    /\ mp = FALSE
    /\ monPc = "off"
    /\ monExit = "none"
    /\ monResult = "none"
    /\ connected = FALSE
    /\ active_transfers = {}
    /\ transfer_bars = EmptyMap
    /\ finished_bars = <<>>
    /\ permits = <<>>
    /\ log = <<>>

\* The locals at the top of monitor_until_complete.
MonitorStart(sink) ==
    /\ mp = sink
    /\ monPc = "recv"
    /\ monExit = "none"
    /\ monResult = "none"
    /\ connected = FALSE
    /\ active_transfers = {}
    /\ transfer_bars = EmptyMap
    /\ finished_bars = <<>>
    /\ permits = <<>>
    /\ log = <<>>

\* self.receiver.recv().await yields Some(e).
Recv(e) ==
    /\ monPc = "recv"
    /\ Len(log) < MaxEvents
    /\ log' = Append(log, e)

\* A monitor that admits one peer only.
OnClientConnected_DeniesSecondPeer(e) ==
    /\ e.type = "ClientConnected"
    /\ Recv(e)
    /\ \E delivered \in BOOLEAN :
          permits' = Append(permits, [connection_id |-> e.connection_id,
                                      permitted |-> ~connected,
                                      delivered |-> delivered])
    /\ connected' = TRUE
    /\ UNCHANGED <<mp, monPc, monExit, monResult, active_transfers,
                   transfer_bars, finished_bars>>
    /\ UNCHANGED nonMonVars

\* Event::ClientConnected: permitted.send(true).await.ok(); connected = true.
\* The send's result is discarded: the approval is delivered or not.
OnClientConnected(e) ==
    /\ e.type = "ClientConnected"
    /\ Recv(e)
    /\ \E delivered \in BOOLEAN :
          permits' = Append(permits, [connection_id |-> e.connection_id,
                                      permitted |-> TRUE,
                                      delivered |-> delivered])
    /\ connected' = TRUE
    /\ UNCHANGED <<mp, monPc, monExit, monResult, active_transfers,
                   transfer_bars, finished_bars>>
    /\ UNCHANGED nonMonVars

\* Event::GetRequestReceived: only a debug line.
OnGetRequestReceived(e) ==
    /\ e.type = "GetRequestReceived"
    /\ Recv(e)
    /\ UNCHANGED <<mp, monPc, monExit, monResult, connected, active_transfers,
                   transfer_bars, finished_bars, permits>>
    /\ UNCHANGED nonMonVars

\* Event::TransferStarted: insert the id, open an indicator when mp is Some.
OnTransferStarted(e) ==
    /\ e.type = "TransferStarted"
    /\ Recv(e)
    /\ active_transfers' = active_transfers \cup {e.request_id}
    /\ transfer_bars' =
          IF mp
          THEN (e.request_id :> [len |-> e.size, pos |-> 0]) @@ transfer_bars
          ELSE transfer_bars
    /\ UNCHANGED <<mp, monPc, monExit, monResult, connected, finished_bars, permits>>
    /\ UNCHANGED nonMonVars

\* A monitor that takes end_offset as an increment.
OnTransferProgress_Increments(e) ==
    /\ e.type = "TransferProgress"
    /\ Recv(e)
    /\ transfer_bars' =
          IF e.request_id \in DOMAIN transfer_bars
          THEN [transfer_bars EXCEPT ![e.request_id].pos = @ + e.end_offset]
          ELSE transfer_bars
    /\ UNCHANGED <<mp, monPc, monExit, monResult, connected, active_transfers,
                   finished_bars, permits>>
    /\ UNCHANGED nonMonVars

\* Event::TransferProgress: pb.set_position(end_offset) if the id has a bar.
OnTransferProgress(e) ==
    /\ e.type = "TransferProgress"
    /\ Recv(e)
    /\ transfer_bars' =
          IF e.request_id \in DOMAIN transfer_bars
          THEN [transfer_bars EXCEPT ![e.request_id].pos = e.end_offset]
          ELSE transfer_bars
    /\ UNCHANGED <<mp, monPc, monExit, monResult, connected, active_transfers,
                   finished_bars, permits>>
    /\ UNCHANGED nonMonVars

\* A close that leaves the indicator in the map.
CloseTransfer_KeepsBar(id, message) ==
    /\ active_transfers' = active_transfers \ {id}
    /\ UNCHANGED <<transfer_bars, finished_bars>>

\* active_transfers.remove(id); transfer_bars.remove(id) and, when there was
\* a bar, finish_with_message.
CloseTransfer(id, message) ==
    /\ active_transfers' = active_transfers \ {id}
    /\ IF id \in DOMAIN transfer_bars
       THEN /\ transfer_bars' =
                  [k \in DOMAIN transfer_bars \ {id} |-> transfer_bars[k]]
            /\ finished_bars' =
                  Append(finished_bars, [request_id |-> id, message |-> message])
       ELSE UNCHANGED <<transfer_bars, finished_bars>>

\* A naive monitor: the session ends when the last known transfer finishes.
OnTransferCompleted_ExitWhenIdle(e) ==
    /\ e.type = "TransferCompleted"
    /\ Recv(e)
    /\ CloseTransfer(e.request_id, "complete")
    /\ IF active_transfers \ {e.request_id} = {}
       THEN monPc' = "done" /\ monExit' = "ConnectionClosed" /\ monResult' = "Ok"
       ELSE UNCHANGED <<monPc, monExit, monResult>>
    /\ UNCHANGED <<mp, connected, permits>>
    /\ UNCHANGED nonMonVars

\* Event::TransferCompleted: close the transfer; "Don't exit here".
OnTransferCompleted(e) ==
    /\ e.type = "TransferCompleted"
    /\ Recv(e)
    /\ CloseTransfer(e.request_id, "complete")
    /\ UNCHANGED <<mp, monPc, monExit, monResult, connected, permits>>
    /\ UNCHANGED nonMonVars

\* A monitor that gives up every transfer when one is aborted.
OnTransferAborted_ClearsAll(e) ==
    /\ e.type = "TransferAborted"
    /\ Recv(e)
    /\ active_transfers' = {}
    /\ transfer_bars' = EmptyMap
    /\ finished_bars' =
          IF e.request_id \in DOMAIN transfer_bars
          THEN Append(finished_bars, [request_id |-> e.request_id,
                                      message |-> "aborted"])
          ELSE finished_bars
    /\ UNCHANGED <<mp, monPc, monExit, monResult, connected, permits>>
    /\ UNCHANGED nonMonVars

\* Event::TransferAborted: close the transfer with the aborted message.
OnTransferAborted(e) ==
    /\ e.type = "TransferAborted"
    /\ Recv(e)
    /\ CloseTransfer(e.request_id, "aborted")
    /\ UNCHANGED <<mp, monPc, monExit, monResult, connected, permits>>
    /\ UNCHANGED nonMonVars

\* A monitor that stays while a transfer is active.
OnConnectionClosed_WaitsForTransfers(e) ==
    /\ e.type = "ConnectionClosed"
    /\ Recv(e)
    /\ monPc' = IF connected /\ active_transfers = {} THEN "grace" ELSE monPc
    /\ UNCHANGED <<mp, monExit, monResult, connected, active_transfers,
                   transfer_bars, finished_bars, permits>>
    /\ UNCHANGED nonMonVars

\* A monitor that returns on every ConnectionClosed.
OnConnectionClosed_Unguarded(e) ==
    /\ e.type = "ConnectionClosed"
    /\ Recv(e)
    /\ monPc' = "grace"
    /\ UNCHANGED <<mp, monExit, monResult, connected, active_transfers,
                   transfer_bars, finished_bars, permits>>
    /\ UNCHANGED nonMonVars

\* Event::ConnectionClosed: if connected, sleep 500 ms and return Ok(()).
OnConnectionClosed(e) ==
    /\ e.type = "ConnectionClosed"
    /\ Recv(e)
    /\ monPc' = IF connected THEN "grace" ELSE monPc
    /\ UNCHANGED <<mp, monExit, monResult, connected, active_transfers,
                   transfer_bars, finished_bars, permits>>
    /\ UNCHANGED nonMonVars

\* The arm `_ => {}`.
OnOtherEvent(e) ==
    /\ e.type = "TaggedBlobAdded"
    /\ Recv(e)
    /\ UNCHANGED <<mp, monPc, monExit, monResult, connected, active_transfers,
                   transfer_bars, finished_bars, permits>>
    /\ UNCHANGED nonMonVars

\* The 500 ms sleep is over: return Ok(()) from the ConnectionClosed arm.
GraceElapsed ==
    /\ monPc = "grace"
    /\ monPc' = "done"
    /\ monExit' = "ConnectionClosed"
    /\ monResult' = "Ok"
    /\ UNCHANGED <<mp, connected, active_transfers, transfer_bars,
                   finished_bars, permits, log>>
    /\ UNCHANGED nonMonVars

\* A monitor for which a closure of the queue while a peer is connected is
\* an error.
QueueClosed_FailsWhenConnected ==
    /\ monPc = "recv"
    /\ monPc' = "done"
    /\ monExit' = "QueueClosed"
    /\ monResult' = IF connected THEN "Err" ELSE "Ok"
    /\ UNCHANGED <<mp, connected, active_transfers, transfer_bars,
                   finished_bars, permits, log>>
    /\ UNCHANGED nonMonVars

\* recv() yields None (every sender is gone): the loop ends, Ok(()).
QueueClosed ==
    /\ monPc = "recv"
    /\ monPc' = "done"
    /\ monExit' = "QueueClosed"
    /\ monResult' = "Ok"
    /\ UNCHANGED <<mp, connected, active_transfers, transfer_bars,
                   finished_bars, permits, log>>
    /\ UNCHANGED nonMonVars

MonitorStep ==
    \/ \E e \in ProviderEvents : OnClientConnected(e)
    \/ \E e \in ProviderEvents : OnGetRequestReceived(e)
    \/ \E e \in ProviderEvents : OnTransferStarted(e)
    \/ \E e \in ProviderEvents : OnTransferProgress(e)
    \/ \E e \in ProviderEvents : OnTransferCompleted(e)
    \/ \E e \in ProviderEvents : OnTransferAborted(e)
    \/ \E e \in ProviderEvents : OnConnectionClosed(e)
    \/ \E e \in ProviderEvents : OnOtherEvent(e)
    \/ GraceElapsed
    \/ QueueClosed

----------------------------------------------------------------------------
(* Strings: a Rust String is modelled as the sequence of its characters *)

\* The byte value of the characters the model's strings use (String::cmp
\* compares bytes).
Ascii(c) ==
    CASE c = "-" -> 45 [] c = "." -> 46 [] c = "/" -> 47 [] c = "1" -> 49
      [] c = "\\" -> 92
      [] c = "a" -> 97 [] c = "b" -> 98 [] c = "c" -> 99 [] c = "d" -> 100
      [] c = "e" -> 101 [] c = "g" -> 103 [] c = "i" -> 105 [] c = "j" -> 106
      [] c = "l" -> 108 [] c = "m" -> 109 [] c = "n" -> 110 [] c = "o" -> 111
      [] c = "r" -> 114 [] c = "s" -> 115 [] c = "t" -> 116 [] c = "u" -> 117
      [] c = "x" -> 120 [] c = "~" -> 126

\* str::starts_with
StartsWith(s, p) == Len(s) >= Len(p) /\ SubSeq(s, 1, Len(p)) = p

\* str::contains
Contains(s, p) ==
    \E i \in 1..(Len(s) - Len(p) + 1) : SubSeq(s, i, i + Len(p) - 1) = p

\* str::replace(from, to) for single characters
ReplaceChar(s, from, to) == [i \in 1..Len(s) |-> IF s[i] = from THEN to ELSE s[i]]

\* a.cmp(&b) == Ordering::Less on Strings
RECURSIVE StrLess(_, _)
StrLess(a, b) ==
    IF b = <<>> THEN FALSE
    ELSE IF a = <<>> THEN TRUE
    ELSE IF Ascii(Head(a)) < Ascii(Head(b)) THEN TRUE
    ELSE IF Ascii(Head(a)) > Ascii(Head(b)) THEN FALSE
    ELSE StrLess(Tail(a), Tail(b))

\* ".agentbeam-"
ScratchPrefix == <<".", "a", "g", "e", "n", "t", "b", "e", "a", "m", "-">>

\* "/.agentbeam-"
SlashScratchPrefix == <<"/">> \o ScratchPrefix

\* ".agentbeam/claude-session.jsonl"
SessionEntryName ==
    <<".", "a", "g", "e", "n", "t", "b", "e", "a", "m", "/",
      "c", "l", "a", "u", "d", "e", "-", "s", "e", "s", "s", "i", "o", "n",
      ".", "j", "s", "o", "n", "l">>

\* ".agentbeam-metadata.json"
MetadataEntryName ==
    <<".", "a", "g", "e", "n", "t", "b", "e", "a", "m", "-",
      "m", "e", "t", "a", "d", "a", "t", "a", ".", "j", "s", "o", "n">>

----------------------------------------------------------------------------
(* FileCollector::collect_files, ClaudeContext::add_to_collection,         *)
(* FileCollector::create_collection                                        *)

\* A workspace holds at most MaxFiles of the files below.
MaxFiles == 3

\* Relative paths of regular files under the root, as the walker yields
\* them (before the replace of '\\').
WorkspacePaths ==
    { <<"s", "r", "c", "/", "m">>,                                  \* src/m
      ScratchPrefix \o <<"1", "/", "x">>,                            \* .agentbeam-1/x
      <<"s", "r", "c", "/">> \o ScratchPrefix \o <<"1", "/", "x">>,  \* src/.agentbeam-1/x
      SessionEntryName,                              \* .agentbeam/claude-session.jsonl
      MetadataEntryName,                             \* .agentbeam-metadata.json
      <<"a">> \o ScratchPrefix \o <<"x">>,           \* a.agentbeam-x
      <<"a", "\\", "b">>,                            \* a\b (one file name)
      <<"a", "/", "b">>,                             \* a/b
      <<".", "a">> }                                 \* .a

\* session.session_file, a log under ~/.claude/projects
SessionFile == <<"~", "/", "s", ".", "j", "s", "o", "n", "l">>

\* Sizes std::fs::metadata reports, in units of 10^9 bytes.
FileSizes == {0, 3}

\* WARN_THRESHOLD = 1_000_000_000, in units of 10^9 bytes
WARN_THRESHOLD == 1

\* The orders in which a walk can yield the files of S.
WalkOrders(S) ==
    { o \in [1..Cardinality(S) -> S] :
        \A i, j \in 1..Cardinality(S) : o[i] = o[j] => i = j }

\* relative_str = relative.to_str()?.replace('\\', "/")
RelativeStr(path) == ReplaceChar(path, "\\", "/")

\* An exclusion that only looks at the start of the path.
IsScratchPath_RootOnly(relative_str) == StartsWith(relative_str, ScratchPrefix)

\* relative_str.starts_with(".agentbeam-") || relative_str.contains("/.agentbeam-")
IsScratchPath(relative_str) ==
    \/ StartsWith(relative_str, ScratchPrefix)
    \/ Contains(relative_str, SlashScratchPrefix)

\* The loop of collect_files over the walk `order`: the kept entries, as
\* (relative_str, path) pairs in walk order.
RECURSIVE WalkEntries(_)
WalkEntries(order) ==
    IF order = <<>> THEN <<>>
    ELSE LET relative_str == RelativeStr(Head(order))
         IN  IF IsScratchPath(relative_str)
             THEN WalkEntries(Tail(order))
             ELSE <<[rel |-> relative_str, src |-> Head(order)]>>
                    \o WalkEntries(Tail(order))

\* files.sort_by(|a, b| a.0.cmp(&b.0)): a stable sort on the relative path.
RECURSIVE InsertSorted(_, _)
InsertSorted(sorted, x) ==
    IF sorted = <<>> THEN <<x>>
    ELSE IF StrLess(x.rel, Head(sorted).rel) THEN <<x>> \o sorted
    ELSE <<Head(sorted)>> \o InsertSorted(Tail(sorted), x)

RECURSIVE SortByRel(_)
SortByRel(s) ==
    IF s = <<>> THEN <<>>
    ELSE InsertSorted(SortByRel(SubSeq(s, 1, Len(s) - 1)), s[Len(s)])

\* collect_files for one walk order
CollectedFiles(order) == SortByRel(WalkEntries(order))

\* An add_to_collection that pushes the entry whether or not a session
\* was detected.
WithSession_Always(fs, sess) ==
    Append(fs, [rel |-> SessionEntryName, src |-> SessionFile])

\* add_to_collection: push the session log when there is a session
WithSession(fs, sess) ==
    IF sess = "Some"
    THEN Append(fs, [rel |-> SessionEntryName, src |-> SessionFile])
    ELSE fs

\* The session directory holds at most MaxEntries entries.
MaxEntries == 2

\* File names of the session directory.
EntryNames == {"a.jsonl", "b.jsonl", "n.txt", "jsonl", ".jsonl", "c.jsonl.bak"}

\* Path::extension(): what follows the last '.' of a name that does not
\* begin with its only '.'; "None" without one.
Extension(name) ==
    CASE name = "a.jsonl" -> "jsonl"
      [] name = "b.jsonl" -> "jsonl"
      [] name = "n.txt" -> "txt"
      [] name = "c.jsonl.bak" -> "bak"
      [] OTHER -> "None"

\* entry.metadata().and_then(|m| m.modified()): the time, or an error.
ModifiedTimes == [ok : {TRUE}, time : {1, 2}] \cup {[ok |-> FALSE, time |-> 0]}

DirEntries == [name : EntryNames, modified : ModifiedTimes]

\* What fs::read_dir yields: the entries in any order, each name once.
Listings ==
    { l \in UNION { [1..n -> DirEntries] : n \in 0..MaxEntries } :
        \A i, j \in 1..Len(l) : l[i].name = l[j].name => i = j }

\* claude_dir.exists() is false
NoClaudeDir == [exists |-> FALSE, listing |-> <<>>]

ClaudeDirs == {NoClaudeDir} \cup [exists : {TRUE}, listing : Listings]

\* The sort key: the modification time, .unwrap_or(SystemTime::UNIX_EPOCH)
ModifiedKey(entry) == IF entry.modified.ok THEN entry.modified.time ELSE 0

\* sessions.sort_by_key(..): a stable sort on the key.
RECURSIVE InsertByKey(_, _)
InsertByKey(sorted, x) ==
    IF sorted = <<>> THEN <<x>>
    ELSE IF ModifiedKey(x) < ModifiedKey(Head(sorted)) THEN <<x>> \o sorted
    ELSE <<Head(sorted)>> \o InsertByKey(Tail(sorted), x)

RECURSIVE SortByKey(_)
SortByKey(l) ==
    IF l = <<>> THEN <<>>
    ELSE InsertByKey(SortByKey(SubSeq(l, 1, Len(l) - 1)), l[Len(l)])

\* A search that takes the first entry of the listing with the extension.
FindLatestSession_First(listing) ==
    LET sessions == SelectSeq(listing, LAMBDA e : Extension(e.name) = "jsonl")
    IN  IF sessions = <<>> THEN "None" ELSE sessions[1].name

\* find_latest_session: the entries with extension jsonl, sorted by
\* modification time; the last one, or None.
FindLatestSession(listing) ==
    LET sessions == SelectSeq(listing, LAMBDA e : Extension(e.name) = "jsonl")
    IN  IF sessions = <<>> THEN "None" ELSE Last(SortByKey(sessions)).name

\* The sender has not started packaging.
BuilderOff ==
    /\ workspace = {}
    /\ ignored = {}
    /\ claude_dir = NoClaudeDir
    /\ session = "None"
    /\ session_file = "None"
    /\ bld_mp = FALSE
    /\ sndPc = "off"
    /\ sndResult = "none"
    /\ snd_error = "none"
    /\ files = <<>>
    /\ metadata = [file_count |-> 0, claude_session |-> "None"]
    /\ import_idx = 0
    /\ collection_items = <<>>
    /\ total_size = 0
    /\ file_sizes = <<>>
    /\ advisory = FALSE
    /\ collection = <<>>

\* beam_session before detect: a workspace `ws` whose ignore rules match
\* the files `ign`, the session directory `dir` of its slug.
BuilderStart(ws, ign, dir, sink) ==
    /\ workspace = ws
    /\ ignored = ign
    /\ claude_dir = dir
    /\ session = "None"
    /\ session_file = "None"
    /\ bld_mp = sink
    /\ sndPc = "detect"
    /\ sndResult = "none"
    /\ snd_error = "none"
    /\ files = <<>>
    /\ metadata = [file_count |-> 0, claude_session |-> "None"]
    /\ import_idx = 0
    /\ collection_items = <<>>
    /\ total_size = 0
    /\ file_sizes = <<>>
    /\ advisory = FALSE
    /\ collection = <<>>

\* A `?` leaves beam_session: its locals are dropped.
SndFail(error) ==
    /\ sndPc' = "unwind"
    /\ sndResult' = "Err"
    /\ snd_error' = error

\* detect_session: Ok(None) without the directory; read_dir or the read of
\* the selected log fails; or Ok(find_latest_session's choice).
FindSession ==
    /\ sndPc = "detect"
    /\ IF ~claude_dir.exists
       THEN /\ sndPc' = "collect"
            /\ UNCHANGED <<session, session_file, sndResult, snd_error>>
       ELSE \/ /\ SndFail("read_dir")
               /\ UNCHANGED <<session, session_file>>
            \/ /\ session_file' = FindLatestSession(claude_dir.listing)
               /\ session' = IF session_file' = "None" THEN "None" ELSE "Some"
               /\ sndPc' = "collect"
               /\ UNCHANGED <<sndResult, snd_error>>
    /\ UNCHANGED <<workspace, ignored, claude_dir, bld_mp, files, metadata,
                   import_idx, collection_items, total_size, file_sizes, advisory,
                   collection>>
    /\ UNCHANGED nonBldVars

\* let mut files = collector.collect_files()?;  The walk does not yield the
\* files the ignore rules match; an entry error or a non-UTF-8 path is an
\* error.
CollectFiles ==
    /\ sndPc = "collect"
    /\ \/ /\ \E order \in WalkOrders(workspace \ ignored) :
                files' = CollectedFiles(order)
          /\ sndPc' = "add"
          /\ UNCHANGED <<sndResult, snd_error>>
       \/ /\ SndFail("walk")
          /\ UNCHANGED files
    /\ UNCHANGED <<workspace, ignored, claude_dir, session, session_file, bld_mp, metadata, import_idx,
                   collection_items, total_size, file_sizes, advisory,
                   collection>>
    /\ UNCHANGED nonBldVars

\* claude_context.add_to_collection(&mut files);
AddToCollection ==
    /\ sndPc = "add"
    /\ files' = WithSession(files, session)
    /\ sndPc' = "metadata"
    /\ UNCHANGED <<workspace, ignored, claude_dir, session, session_file, bld_mp, sndResult, snd_error, metadata,
                   import_idx, collection_items, total_size, file_sizes, advisory,
                   collection>>
    /\ UNCHANGED nonBldVars

\* let metadata = BeamMetadata { file_count: files.len(), claude_session:
\* claude_context.session.as_ref().map(..), .. };
BuildMetadata ==
    /\ sndPc = "metadata"
    /\ metadata' = [file_count |-> Len(files), claude_session |-> session]
    /\ import_idx' = 1
    /\ sndPc' = "import"
    /\ UNCHANGED <<workspace, ignored, claude_dir, session, session_file, bld_mp, sndResult, snd_error, files,
                   collection_items, total_size, file_sizes, advisory,
                   collection>>
    /\ UNCHANGED nonBldVars

\* A build that notes the error of an import and goes on with the next
\* file.
ImportFile_KeepsGoing ==
    /\ sndPc = "import"
    /\ import_idx <= Len(files)
    /\ \/ /\ sndResult' = "Err"
          /\ snd_error' = "import"
          /\ import_idx' = import_idx + 1
          /\ UNCHANGED <<sndPc, collection_items, total_size, file_sizes>>
       \/ /\ \E file_size \in FileSizes :
                /\ total_size' = total_size + file_size
                /\ file_sizes' = Append(file_sizes, file_size)
          /\ collection_items' =
                Append(collection_items,
                       [name |-> files[import_idx].rel,
                        src |-> files[import_idx].src])
          /\ import_idx' = import_idx + 1
          /\ UNCHANGED <<sndPc, sndResult, snd_error>>
    /\ UNCHANGED <<workspace, ignored, claude_dir, session, session_file, bld_mp,
                   files, metadata, advisory, collection>>
    /\ UNCHANGED nonBldVars

\* create_collection: one pass of the loop over files.  The size read
\* fails, or the import stream yields Error or ends without a tag (return
\* Err), or it yields Done(tag).
ImportFile ==
    /\ sndPc = "import"
    /\ import_idx <= Len(files)
    /\ \/ /\ SndFail("size")
          /\ UNCHANGED <<import_idx, collection_items, total_size, file_sizes>>
       \/ /\ \E file_size \in FileSizes :
                /\ total_size' = total_size + file_size
                /\ file_sizes' = Append(file_sizes, file_size)
          /\ \/ /\ SndFail("import")
                /\ UNCHANGED <<import_idx, collection_items>>
             \/ /\ collection_items' =
                      Append(collection_items,
                             [name |-> files[import_idx].rel,
                              src |-> files[import_idx].src])
                /\ import_idx' = import_idx + 1
                /\ UNCHANGED <<sndPc, sndResult, snd_error>>
    /\ UNCHANGED <<workspace, ignored, claude_dir, session, session_file, bld_mp, files, metadata,
                   advisory, collection>>
    /\ UNCHANGED nonBldVars

\* A build that stores the metadata entry in front of the files.
FinishCollection_MetadataFirst ==
    /\ sndPc = "import"
    /\ import_idx > Len(files)
    /\ advisory' = (total_size > WARN_THRESHOLD /\ bld_mp)
    /\ collection_items' =
          <<[name |-> MetadataEntryName, src |-> <<"m">>]>> \o collection_items
    /\ collection' = collection_items'
    /\ sndPc' = "gate"
    /\ UNCHANGED <<sndResult, snd_error>>
    /\ UNCHANGED <<workspace, ignored, claude_dir, session, session_file, bld_mp,
                   files, metadata, import_idx, total_size, file_sizes>>
    /\ UNCHANGED nonBldVars

\* A build for which a large workspace is an error.
FinishCollection_AbortsWhenLarge ==
    /\ sndPc = "import"
    /\ import_idx > Len(files)
    /\ advisory' = (total_size > WARN_THRESHOLD /\ bld_mp)
    /\ IF advisory'
       THEN /\ SndFail("large")
            /\ UNCHANGED <<collection_items, collection>>
       ELSE /\ collection_items' =
                  Append(collection_items,
                         [name |-> MetadataEntryName, src |-> <<"m">>])
            /\ collection' = collection_items'
            /\ sndPc' = "gate"
            /\ UNCHANGED <<sndResult, snd_error>>
    /\ UNCHANGED <<workspace, ignored, claude_dir, session, session_file, bld_mp,
                   files, metadata, import_idx, total_size, file_sizes>>
    /\ UNCHANGED nonBldVars

\* create_collection after the loop: the advisory, the metadata entry,
\* Collection::from_iter and collection.store; Ok((tag, total_size, collection)).
FinishCollection ==
    /\ sndPc = "import"
    /\ import_idx > Len(files)
    /\ advisory' = (total_size > WARN_THRESHOLD /\ bld_mp)
    /\ \/ /\ SndFail("add_slice")
          /\ UNCHANGED <<collection_items, collection>>
       \/ /\ collection_items' =
                Append(collection_items,
                       [name |-> MetadataEntryName, src |-> <<"m">>])
          /\ \/ /\ SndFail("store")
                /\ UNCHANGED collection
             \/ /\ collection' = collection_items'
                /\ sndPc' = "gate"
                /\ UNCHANGED <<sndResult, snd_error>>
    /\ UNCHANGED <<workspace, ignored, claude_dir, session, session_file, bld_mp, files, metadata,
                   import_idx, total_size, file_sizes>>
    /\ UNCHANGED nonBldVars

BuilderStep ==
    \/ FindSession
    \/ CollectFiles
    \/ AddToCollection
    \/ BuildMetadata
    \/ ImportFile
    \/ FinishCollection

----------------------------------------------------------------------------
(* Receiver::receive_from_ticket and Receiver::download_blob *)

\* mpsc::channel::<u64>(32)
RelayCapacity == 32

\* The fetch stream yields at most MaxProgress Progress items.
MaxProgress == 33

LocalSizes == {0, 1}

\* The bytes of the blobs the ticket names, by position.
RecvBytes == {1, 2}

\* local.missing() of a store that holds the first `held` bytes.
Missing(held) == {b \in RecvBytes : b > held}

\* The collections a ticket can name, as the entry names Collection::load
\* yields.
RecvCollections ==
    { <<".agentbeam-metadata.json">>,
      <<"a.txt", ".agentbeam-metadata.json">>,
      <<"d/a.txt", ".agentbeam-metadata.json">>,
      <<"../x", ".agentbeam-metadata.json">>,
      <<"/x", ".agentbeam-metadata.json">> }

\* Path::components of an entry name; RootDir is written "/".
Components(name) ==
    CASE name = "a.txt" -> <<"a.txt">>
      [] name = ".agentbeam-metadata.json" -> <<".agentbeam-metadata.json">>
      [] name = "d/a.txt" -> <<"d", "a.txt">>
      [] name = "../x" -> <<"..", "x">>
      [] name = "/x" -> <<"/", "x">>

\* The extraction target, absolute.
TargetDir == <<"/", "w", "t">>

\* Path::join: an absolute path replaces the base.
PathJoin(base, path) ==
    IF path # <<>> /\ Head(path) = "/" THEN path ELSE base \o path

\* target_dir.join(name)
TargetPath(name) == PathJoin(TargetDir, Components(name))

\* The file a path names: every `..` leaves the directory before it (the
\* root is its own parent).
RECURSIVE ResolveFrom(_, _)
ResolveFrom(done, rest) ==
    IF rest = <<>> THEN done
    ELSE IF Head(rest) = ".."
         THEN ResolveFrom(IF Len(done) > 1 THEN SubSeq(done, 1, Len(done) - 1) ELSE done,
                          Tail(rest))
         ELSE ResolveFrom(Append(done, Head(rest)), Tail(rest))

Resolve(path) == ResolveFrom(<<>>, path)

NoBar == [present |-> FALSE, pos |-> 0, updates |-> 0, finished |-> FALSE]

\* The receiver does not run.
ReceiverOff ==
    /\ rcv_mp = FALSE
    /\ rcvPc = "off"
    /\ rcvResult = "none"
    /\ rcv_error = "none"
    /\ local_complete = "unknown"
    /\ local_size = 0
    /\ calls = <<>>
    /\ fetched = 0
    /\ pending = 0
    /\ relay = <<>>
    /\ tx_open = FALSE
    /\ progress_task = "none"
    /\ task_current = 0
    /\ dl_bar = NoBar
    /\ stats = "default"
    /\ fetch_end = "none"
    /\ rcv_collection = <<>>
    /\ exp_idx = 0
    /\ exported = {}
    /\ requested = {}
    /\ written = {}

\* Receiver::new and the entry of receive_from_ticket.
ReceiverStart(sink) ==
    /\ rcv_mp = sink
    /\ rcvPc = "local"
    /\ rcvResult = "none"
    /\ rcv_error = "none"
    /\ local_complete = "unknown"
    /\ local_size = 0
    /\ calls = <<>>
    /\ fetched = 0
    /\ pending = 0
    /\ relay = <<>>
    /\ tx_open = FALSE
    /\ progress_task = "none"
    /\ task_current = 0
    /\ dl_bar = NoBar
    /\ stats = "default"
    /\ fetch_end = "none"
    /\ rcv_collection = <<>>
    /\ exp_idx = 0
    /\ exported = {}
    /\ requested = {}
    /\ written = {}

\* A `?` or bail! leaves receive_from_ticket with an error.  The locals are
\* dropped: tx closes the channel, a relay task that was spawned is detached.
RcvFail(error) ==
    /\ rcvPc' = "failed"
    /\ rcvResult' = "Err"
    /\ rcv_error' = error
    /\ tx_open' = FALSE
    /\ pending' = 0

\* A receiver that always downloads.
LocalQuery_AlwaysDownload ==
    /\ rcvPc = "local"
    /\ calls' = Append(calls, "local")
    /\ \E r \in {"complete", "incomplete", "error"} :
          IF r = "error"
          THEN RcvFail("local") /\ UNCHANGED local_complete
          ELSE /\ local_complete' = r
               /\ rcvPc' = "connect"
               /\ UNCHANGED <<rcvResult, rcv_error, tx_open, pending>>
    /\ UNCHANGED <<rcv_mp, local_size, fetched, relay, progress_task,
                   task_current, dl_bar, stats, fetch_end, rcv_collection, exp_idx, exported, requested, written>>
    /\ UNCHANGED nonRcvVars

\* let local = self.blobs.remote().local(hash_and_format).await?;
\* if !local.is_complete() { download_blob ... } else { "already available" }
LocalQuery ==
    /\ rcvPc = "local"
    /\ calls' = Append(calls, "local")
    /\ \E r \in {"complete", "incomplete", "error"} :
          IF r = "error"
          THEN RcvFail("local") /\ UNCHANGED local_complete
          ELSE /\ local_complete' = r
               /\ rcvPc' = IF r = "complete" THEN "load" ELSE "connect"
               /\ UNCHANGED <<rcvResult, rcv_error, tx_open, pending>>
    /\ UNCHANGED <<rcv_mp, local_size, fetched, relay, progress_task,
                   task_current, dl_bar, stats, fetch_end, rcv_collection, exp_idx, exported, requested, written>>
    /\ UNCHANGED nonRcvVars

\* download_blob: self.endpoint.connect(..).await.context("Failed to connect to peer")?
Connect ==
    /\ rcvPc = "connect"
    /\ calls' = Append(calls, "connect")
    /\ \E ok \in BOOLEAN :
          IF ok
          THEN rcvPc' = "seq_info" /\ UNCHANGED <<rcvResult, rcv_error, tx_open, pending>>
          ELSE RcvFail("connect")
    /\ UNCHANGED <<rcv_mp, local_complete, local_size, fetched, relay,
                   progress_task, task_current, dl_bar, stats, fetch_end, rcv_collection,
                   exp_idx, exported, requested, written>>
    /\ UNCHANGED nonRcvVars

\* download_blob: get_hash_seq_and_sizes(..).await.context("Failed to get blob info")?
SequenceInfo ==
    /\ rcvPc = "seq_info"
    /\ calls' = Append(calls, "seq_info")
    /\ \E ok \in BOOLEAN :
          IF ok
          THEN rcvPc' = "get" /\ UNCHANGED <<rcvResult, rcv_error, tx_open, pending>>
          ELSE RcvFail("seq_info")
    /\ UNCHANGED <<rcv_mp, local_complete, local_size, fetched, relay,
                   progress_task, task_current, dl_bar, stats, fetch_end, rcv_collection,
                   exp_idx, exported, requested, written>>
    /\ UNCHANGED nonRcvVars

\* A get request for the whole blob, whatever the store holds.
StartGet_RequestsAll ==
    /\ rcvPc = "get"
    /\ \E r \in LocalSizes :
          /\ local_size' = r
          /\ requested' = RecvBytes
          /\ calls' = calls \o <<"local", "get">>
          /\ relay' = <<>>
          /\ tx_open' = TRUE
          /\ progress_task' = IF rcv_mp THEN "running" ELSE "none"
          /\ task_current' = IF rcv_mp THEN r ELSE task_current
          /\ rcvPc' = "fetch"
    /\ dl_bar' = IF rcv_mp THEN [NoBar EXCEPT !.present = TRUE] ELSE dl_bar
    /\ UNCHANGED <<rcv_mp, rcvResult, rcv_error, pending, local_complete,
                   fetched, stats, fetch_end, rcv_collection, exp_idx, exported,
                   written>>
    /\ UNCHANGED nonRcvVars

\* download_blob: the indicator (when mp is Some), the second local query,
\* execute_get(connection, local.missing()), the channel and the relay task.
StartGet ==
    /\ rcvPc = "get"
    /\ \E r \in LocalSizes \cup {-1} :
          IF r = -1
          THEN /\ RcvFail("local")
               /\ calls' = Append(calls, "local")
               /\ UNCHANGED <<local_size, requested, relay, progress_task,
                              task_current>>
          ELSE /\ local_size' = r
               /\ requested' = Missing(r)
               /\ calls' = calls \o <<"local", "get">>
               /\ relay' = <<>>
               /\ tx_open' = TRUE
               /\ progress_task' = IF rcv_mp THEN "running" ELSE "none"
               /\ task_current' = IF rcv_mp THEN r ELSE task_current
               /\ rcvPc' = "fetch"
               /\ UNCHANGED <<rcvResult, rcv_error, pending>>
    /\ dl_bar' = IF rcv_mp THEN [NoBar EXCEPT !.present = TRUE] ELSE dl_bar
    /\ UNCHANGED <<rcv_mp, local_complete, fetched, stats, fetch_end, rcv_collection,
                   exp_idx, exported, written>>
    /\ UNCHANGED nonRcvVars

\* stream.next() yields GetProgressItem::Progress(offset): tx.send(offset)
\* is now waiting for room in the channel.
FetchProgress ==
    /\ rcvPc = "fetch"
    /\ fetched < MaxProgress
    /\ fetched' = fetched + 1
    /\ pending' = fetched + 1
    /\ rcvPc' = "send"
    /\ UNCHANGED <<rcv_mp, rcvResult, rcv_error, local_complete, local_size, calls, relay,
                   tx_open, progress_task, task_current, dl_bar, stats, fetch_end,
                   rcv_collection, exp_idx, exported, requested, written>>
    /\ UNCHANGED nonRcvVars

\* tx.send(offset).await completes: the channel had room.
RelaySend ==
    /\ rcvPc = "send"
    /\ Len(relay) < RelayCapacity
    /\ relay' = Append(relay, pending)
    /\ pending' = 0
    /\ rcvPc' = "fetch"
    /\ UNCHANGED <<rcv_mp, rcvResult, rcv_error, local_complete, local_size, calls, fetched,
                   tx_open, progress_task, task_current, dl_bar, stats, fetch_end,
                   rcv_collection, exp_idx, exported, requested, written>>
    /\ UNCHANGED nonRcvVars

\* A fetch loop for which the end of the stream without Done is an error.
FetchEnd_NeedsDone ==
    /\ rcvPc = "fetch"
    /\ \E item \in {"Done", "None"} :
          /\ fetch_end' = item
          /\ IF item = "Done"
             THEN /\ stats' = "done"
                  /\ tx_open' = FALSE
                  /\ rcvPc' = "join"
                  /\ UNCHANGED <<rcvResult, rcv_error, pending>>
             ELSE /\ RcvFail("stream")
                  /\ UNCHANGED stats
    /\ UNCHANGED <<rcv_mp, local_complete, local_size, calls, fetched, relay,
                   progress_task, task_current, dl_bar, rcv_collection,
                   exp_idx, exported, requested, written>>
    /\ UNCHANGED nonRcvVars

\* stream.next() yields Done(stats) (break) or None (the loop ends): drop(tx).
FetchEnd ==
    /\ rcvPc = "fetch"
    /\ \E item \in {"Done", "None"} :
          /\ stats' = IF item = "Done" THEN "done" ELSE stats
          /\ fetch_end' = item
    /\ tx_open' = FALSE
    /\ rcvPc' = "join"
    /\ UNCHANGED <<rcv_mp, rcvResult, rcv_error, local_complete, local_size, calls, fetched,
                   pending, relay, progress_task, task_current, dl_bar,
                   rcv_collection, exp_idx, exported, requested, written>>
    /\ UNCHANGED nonRcvVars

\* A fetch loop that leaves on an Error item as it does on Done.
FetchError_GoesOn ==
    /\ rcvPc = "fetch"
    /\ fetch_end' = "Error"
    /\ rcv_error' = "stream"
    /\ tx_open' = FALSE
    /\ rcvPc' = "join"
    /\ UNCHANGED <<rcv_mp, rcvResult, pending, local_complete, local_size,
                   calls, fetched, relay, progress_task, task_current, dl_bar,
                   stats, rcv_collection, exp_idx, exported, requested, written>>
    /\ UNCHANGED nonRcvVars

\* stream.next() yields Error(cause): bail!("Download error").
FetchError ==
    /\ rcvPc = "fetch"
    /\ fetch_end' = "Error"
    /\ RcvFail("stream")
    /\ UNCHANGED <<rcv_mp, local_complete, local_size, calls, fetched, relay,
                   progress_task, task_current, dl_bar, stats, rcv_collection,
                   exp_idx, exported, requested, written>>
    /\ UNCHANGED nonRcvVars

\* The relay task: rx.recv() yields an offset; current = local_size + offset;
\* pb.set_position(current).
TaskRecv ==
    /\ progress_task = "running"
    /\ relay # <<>>
    /\ relay' = Tail(relay)
    /\ task_current' = local_size + Head(relay)
    /\ dl_bar' = [dl_bar EXCEPT !.pos = local_size + Head(relay),
                                !.updates = @ + 1]
    /\ UNCHANGED <<rcv_mp, rcvPc, rcvResult, rcv_error, local_complete, local_size, calls,
                   fetched, pending, tx_open, progress_task, stats, fetch_end,
                   rcv_collection, exp_idx, exported, requested, written>>
    /\ UNCHANGED nonRcvVars

\* The relay task: rx.recv() yields None (tx dropped, channel drained);
\* pb.finish_with_message.
TaskFinish ==
    /\ progress_task = "running"
    /\ relay = <<>>
    /\ ~tx_open
    /\ progress_task' = "finished"
    /\ dl_bar' = [dl_bar EXCEPT !.finished = TRUE]
    /\ UNCHANGED <<rcv_mp, rcvPc, rcvResult, rcv_error, local_complete, local_size, calls,
                   fetched, pending, relay, tx_open, task_current, stats, fetch_end,
                   rcv_collection, exp_idx, exported, requested, written>>
    /\ UNCHANGED nonRcvVars

\* A download_blob that returns without awaiting the relay task.
JoinAndSettle_NoJoin ==
    /\ rcvPc = "join"
    /\ calls' = Append(calls, "settle")
    /\ rcvPc' = "load"
    /\ UNCHANGED <<rcv_mp, rcvResult, rcv_error, local_complete, local_size,
                   fetched, pending, relay, tx_open, progress_task,
                   task_current, dl_bar, stats, fetch_end, rcv_collection, exp_idx,
                   exported, requested, written>>
    /\ UNCHANGED nonRcvVars

\* if let Some(task) = progress_task { task.await.ok(); }  Ok(stats);
\* back in receive_from_ticket the 500 ms settling sleep follows.
JoinAndSettle ==
    /\ rcvPc = "join"
    /\ progress_task # "running"
    /\ calls' = Append(calls, "settle")
    /\ rcvPc' = "load"
    /\ UNCHANGED <<rcv_mp, rcvResult, rcv_error, local_complete, local_size, fetched,
                   pending, relay, tx_open, progress_task, task_current, dl_bar,
                   stats, fetch_end, rcv_collection, exp_idx, exported, requested, written>>
    /\ UNCHANGED nonRcvVars

\* Collection::load(hash, self.blobs.store()).await?
LoadCollection ==
    /\ rcvPc = "load"
    /\ calls' = Append(calls, "load")
    /\ \/ /\ RcvFail("load")
          /\ UNCHANGED <<rcv_collection, exp_idx>>
       \/ /\ \E c \in RecvCollections : rcv_collection' = c
          /\ exp_idx' = 1
          /\ rcvPc' = "export"
          /\ UNCHANGED <<rcvResult, rcv_error, tx_open, pending>>
    /\ UNCHANGED <<rcv_mp, local_complete, local_size, fetched, relay,
                   progress_task, task_current, dl_bar, stats, fetch_end, exported, requested, written>>
    /\ UNCHANGED nonRcvVars

\* export_collection: one pass of the loop over collection.iter().  The
\* export stream yields Done (the file is written), Error (return Err) or
\* ends without either (the loop goes on).
ExportEntry ==
    /\ rcvPc = "export"
    /\ exp_idx <= Len(rcv_collection)
    /\ calls' = Append(calls, "export")
    /\ \E item \in {"Done", "Error", "None"} :
          IF item = "Error"
          THEN RcvFail("export") /\ UNCHANGED <<exp_idx, exported, written>>
          ELSE /\ exported' = IF item = "Done"
                              THEN exported \cup {rcv_collection[exp_idx]}
                              ELSE exported
               /\ written' = IF item = "Done"
                             THEN written \cup {Resolve(TargetPath(rcv_collection[exp_idx]))}
                             ELSE written
               /\ exp_idx' = exp_idx + 1
               /\ UNCHANGED <<rcvPc, rcvResult, rcv_error, tx_open, pending>>
    /\ UNCHANGED <<rcv_mp, local_complete, local_size, fetched, relay,
                   progress_task, task_current, dl_bar, stats, fetch_end, rcv_collection,
                   requested>>
    /\ UNCHANGED nonRcvVars

\* export_collection returns Ok(()); receive_from_ticket returns Ok(()).
ExportDone ==
    /\ rcvPc = "export"
    /\ exp_idx > Len(rcv_collection)
    /\ rcvPc' = "done"
    /\ rcvResult' = "Ok"
    /\ UNCHANGED rcv_error
    /\ UNCHANGED <<rcv_mp, local_complete, local_size, calls, fetched, pending,
                   relay, tx_open, progress_task, task_current, dl_bar, stats, fetch_end,
                   rcv_collection, exp_idx, exported, requested, written>>
    /\ UNCHANGED nonRcvVars

ReceiverStep ==
    \/ LocalQuery
    \/ Connect
    \/ SequenceInfo
    \/ StartGet
    \/ FetchProgress
    \/ RelaySend
    \/ FetchEnd
    \/ FetchError
    \/ TaskRecv
    \/ TaskFinish
    \/ JoinAndSettle
    \/ LoadCollection
    \/ ExportEntry
    \/ ExportDone

----------------------------------------------------------------------------
(* ensure_gitignore_has_agentbeam_pattern *)

\* The length of the ignore file's text before the first run, in pieces.
MaxIgnoreLen == 3

\* The runs of the function on one workspace.
MaxApplies == 3

\* let pattern = ".agentbeam-*";
Pattern == ".agentbeam-*"

\* "# AgentBeam temporary directories"
IgnoreComment == "# AgentBeam temporary directories"

\* The pieces a text is made of: a line feed, a carriage return, a blank,
\* the text of the pattern, a slash, and another character.
IgnorePieces == {"\n", "\r", " ", Pattern, "/", "x"}

\* The texts of an ignore file.
IgnoreTexts == UNION { [1..n -> IgnorePieces] : n \in 0..MaxIgnoreLen }

\* char::is_whitespace, on the pieces.
IsWhitespace(c) == c \in {"\n", "\r", " "}

\* str::lines: split_inclusive('\n'), then a line that ended in a line
\* feed loses it and a carriage return before it.
RECURSIVE SplitInclusive(_, _)
SplitInclusive(text, line) ==
    IF text = <<>>
    THEN IF line = <<>> THEN <<>> ELSE <<line>>
    ELSE IF Head(text) = "\n"
         THEN <<Append(line, "\n")>> \o SplitInclusive(Tail(text), <<>>)
         ELSE SplitInclusive(Tail(text), Append(line, Head(text)))

StripSuffix(line, c) ==
    IF line # <<>> /\ Last(line) = c THEN SubSeq(line, 1, Len(line) - 1) ELSE line

Lines(text) ==
    LET raw == SplitInclusive(text, <<>>)
    IN  [i \in 1..Len(raw) |->
            IF Last(raw[i]) = "\n"
            THEN StripSuffix(StripSuffix(raw[i], "\n"), "\r")
            ELSE raw[i]]

\* str::trim
RECURSIVE TrimStart(_)
TrimStart(line) ==
    IF line # <<>> /\ IsWhitespace(Head(line)) THEN TrimStart(Tail(line)) ELSE line

RECURSIVE TrimEnd(_)
TrimEnd(line) ==
    IF line # <<>> /\ IsWhitespace(Last(line))
    THEN TrimEnd(SubSeq(line, 1, Len(line) - 1))
    ELSE line

TrimLine(line) == TrimEnd(TrimStart(line))

\* A check that knows the pattern without the slash only.
HasPattern_PatternOnly(content) ==
    \E i \in 1..Len(Lines(content)) : TrimLine(Lines(content)[i]) = <<Pattern>>

\* content.lines().any(|line| trimmed == pattern || trimmed == ".agentbeam-*/")
HasPattern(content) ==
    \E i \in 1..Len(Lines(content)) :
        LET trimmed == TrimLine(Lines(content)[i])
        IN  trimmed = <<Pattern>> \/ trimmed = <<Pattern, "/">>

\* The text the function writes when the pattern is missing.
WithPattern(content) ==
    LET ended == IF content # <<>> /\ Last(content) # "\n"
                 THEN Append(content, "\n")
                 ELSE content
        commented == IF ended = <<>>
                     THEN <<IgnoreComment, "\n">>
                     ELSE ended \o <<"\n", IgnoreComment, "\n">>
    IN  commented \o <<Pattern, "\n">>

\* The function does not run.
IgnoreOff ==
    /\ giPc = "off"
    /\ gitignore_exists = FALSE
    /\ gitignore = <<>>
    /\ gi_applies = 0
    /\ gi_writes = 0
    /\ gi_result = "none"

\* A workspace with or without an ignore file, before beam_session.
IgnoreStart(exists, text) ==
    /\ giPc = "ready"
    /\ gitignore_exists = exists
    /\ gitignore = text
    /\ gi_applies = 0
    /\ gi_writes = 0
    /\ gi_result = "none"

\* One run of ensure_gitignore_has_agentbeam_pattern.
EnsureGitignoreHasAgentbeamPattern ==
    /\ giPc = "ready"
    /\ gi_applies < MaxApplies
    /\ gi_applies' = gi_applies + 1
    /\ \/ \* std::fs::read_to_string(&gitignore_path)?
          /\ gitignore_exists
          /\ gi_result' = "Err"
          /\ UNCHANGED <<gitignore_exists, gitignore, gi_writes>>
       \/ LET content == IF gitignore_exists THEN gitignore ELSE <<>>
          IN  IF HasPattern(content)
              THEN /\ gi_result' = "Ok"
                   /\ UNCHANGED <<gitignore_exists, gitignore, gi_writes>>
              ELSE \/ \* std::fs::write(&gitignore_path, content)?
                      /\ gi_result' = "Err"
                      /\ UNCHANGED <<gitignore_exists, gitignore, gi_writes>>
                   \/ /\ gitignore' = WithPattern(content)
                      /\ gitignore_exists' = TRUE
                      /\ gi_writes' = gi_writes + 1
                      /\ gi_result' = "Ok"
    /\ UNCHANGED giPc
    /\ UNCHANGED nonIgnVars

----------------------------------------------------------------------------
(* ClaudeContext::detect_session, ClaudeContext::restore and               *)
(* ClaudeContext::copy_session_with_new_id                                 *)

\* A session log holds at most MaxLines lines.
MaxLines == 3

\* At most MaxRestores restores run into one session directory.
MaxRestores == 2

\* The id of the log on the sender: its file stem.
OrigId == "s1"

\* uuid::Uuid::new_v4().to_string(): values no file of the directory has.
UuidPool == {"uuid-1", "uuid-2"}

\* The lines str::lines() can yield: an empty line, a line of whitespace,
\* a line that is not JSON, a JSON value that is no object, and objects with
\* or without a top-level `sessionId`; `spaced` lines carry whitespace a
\* serializer does not keep.
LogLines ==
    { [kind |-> "blank", sessionId |-> "absent", payload |-> 0, spaced |-> FALSE],
      [kind |-> "blank", sessionId |-> "absent", payload |-> 0, spaced |-> TRUE],
      [kind |-> "malformed", sessionId |-> "absent", payload |-> 0, spaced |-> FALSE],
      [kind |-> "value", sessionId |-> "absent", payload |-> 1, spaced |-> FALSE],
      [kind |-> "object", sessionId |-> "absent", payload |-> 1, spaced |-> FALSE],
      [kind |-> "object", sessionId |-> "absent", payload |-> 2, spaced |-> TRUE],
      [kind |-> "object", sessionId |-> OrigId, payload |-> 1, spaced |-> FALSE],
      [kind |-> "object", sessionId |-> OrigId, payload |-> 2, spaced |-> TRUE],
      [kind |-> "object", sessionId |-> "s0", payload |-> 1, spaced |-> FALSE] }

SessionLogs == UNION { [1..n -> LogLines] : n \in 0..MaxLines }

\* What a log file of the receiver holds before any restore.
ExistingLog ==
    <<[kind |-> "object", sessionId |-> "s0", payload |-> 2, spaced |-> FALSE]>>

\* The receiver's session directories: which logs exist, by id.
SessionDirs ==
    { [id \in ids |-> ExistingLog] : ids \in SUBSET {OrigId, OrigId \o "-agentbeam"} }

\* detect_session: entry_count = content.lines().count()
EntryCount(content) == Len(content)

\* line.trim().is_empty()
IsBlank(line) == line.kind = "blank"

\* serde_json::from_str(line) fails
IsMalformed(line) == line.kind = "malformed"

\* A rewrite that stamps the new id on every object.
RewrittenLine_StampsAll(line, new_id) ==
    [line EXCEPT !.sessionId = IF line.kind = "object" THEN new_id ELSE @,
                 !.spaced = FALSE]

\* The entry written for a parsed line: `sessionId` replaced when the value
\* is an object that has the key, then serde_json::to_string (compact).
RewrittenLine(line, new_id) ==
    [line EXCEPT !.sessionId =
                    IF line.kind = "object" /\ line.sessionId # "absent"
                    THEN new_id ELSE @,
                 !.spaced = FALSE]

\* A copy that leaves out the lines it cannot parse.
CopyLines_SkipsMalformed(content, new_id) ==
    LET kept == SelectSeq(content, LAMBDA l : ~IsBlank(l) /\ ~IsMalformed(l))
    IN  [ok |-> TRUE,
         output |-> [i \in 1..Len(kept) |-> RewrittenLine(kept[i], new_id)]]

\* The loop of copy_session_with_new_id: the output lines, or the parse
\* error of the first malformed line.
RECURSIVE CopyLines(_, _)
CopyLines(content, new_id) ==
    IF content = <<>> THEN [ok |-> TRUE, output |-> <<>>]
    ELSE IF IsBlank(Head(content)) THEN CopyLines(Tail(content), new_id)
    ELSE IF IsMalformed(Head(content)) THEN [ok |-> FALSE, output |-> <<>>]
    ELSE LET rest == CopyLines(Tail(content), new_id)
         IN  [ok |-> rest.ok,
              output |-> IF rest.ok
                         THEN <<RewrittenLine(Head(content), new_id)>>
                                \o rest.output
                         ELSE <<>>]

\* A restore that writes under the original id.
NewSessionIds_KeepOriginal(dir, original_session_id) == {original_session_id}

\* restore: the new id.  `<original>-agentbeam` when `<original>.jsonl`
\* exists, a fresh UUID otherwise.
NewSessionIds(dir, original_session_id) ==
    IF original_session_id \in DOMAIN dir
    THEN {original_session_id \o "-agentbeam"}
    ELSE UuidPool \ DOMAIN dir

\* No session is being restored.
RestoreOff ==
    /\ source_log = <<>>
    /\ session_dir = EmptyMap
    /\ claude_info = [original_session_id |-> "none", entry_count |-> 0]
    /\ rstPc = "off"
    /\ rst_result = "none"
    /\ rst_error = "none"
    /\ new_session_id = "none"
    /\ restores = 0

\* A sender log `content` and a receiver session directory `dir`.
RestoreStart(content, dir) ==
    /\ source_log = content
    /\ session_dir = dir
    /\ claude_info = [original_session_id |-> "none", entry_count |-> 0]
    /\ rstPc = "detect"
    /\ rst_result = "none"
    /\ rst_error = "none"
    /\ new_session_id = "none"
    /\ restores = 0

\* detect_session (sender): the id is the file stem, the entry count the
\* number of lines; beam_session copies both into ClaudeSessionInfo.
DetectSession ==
    /\ rstPc = "detect"
    /\ claude_info' = [original_session_id |-> OrigId,
                       entry_count |-> EntryCount(source_log)]
    /\ rstPc' = "restore"
    /\ UNCHANGED <<source_log, session_dir, rst_result, rst_error, new_session_id,
                   restores>>
    /\ UNCHANGED nonRstVars

\* ClaudeContext::restore (receiver), with copy_session_with_new_id: the
\* directory cannot be created or the log not read or written (Err, nothing
\* written), a line does not parse (Err, nothing written), or the rewritten
\* log is written to `<new id>.jsonl`.
Restore ==
    /\ rstPc = "restore"
    /\ restores < MaxRestores
    /\ restores' = restores + 1
    /\ \/ /\ rst_result' = "Err"
          /\ rst_error' = "io"
          /\ UNCHANGED <<session_dir, new_session_id>>
       \/ \E new_id \in NewSessionIds(session_dir, claude_info.original_session_id) :
            LET copy == CopyLines(source_log, new_id)
            IN  /\ new_session_id' = new_id
                /\ IF copy.ok
                   THEN /\ session_dir' = (new_id :> copy.output) @@ session_dir
                        /\ rst_result' = "Ok"
                        /\ rst_error' = "none"
                   ELSE /\ rst_result' = "Err"
                        /\ rst_error' = "parse"
                        /\ UNCHANGED session_dir
    /\ UNCHANGED <<source_log, claude_info, rstPc>>
    /\ UNCHANGED nonRstVars

RestoreStep ==
    \/ DetectSession
    \/ Restore

----------------------------------------------------------------------------
(* AgentBeam::new, AgentBeam::shutdown, AgentBeam::keep_temp_dir,          *)
(* Drop for TempDirGuard, and the exit paths of beam_session and           *)
(* receive_session                                                         *)

\* config.rs: MAX_BEAM_SIZE, in units of 10^9 bytes.
MAX_BEAM_SIZE == 5

\* The sizes create_collection returns: at the limit and above it.
RunSizes == {MAX_BEAM_SIZE, MAX_BEAM_SIZE + 1}

ConnectionModes == {"Direct", "DefaultRelay", "CustomRelay"}

\* No command is running.
RunOff ==
    /\ role = "off"
    /\ connection_mode = "DefaultRelay"
    /\ force = FALSE
    /\ runPc = "off"
    /\ run_result = "none"
    /\ temp_dir = "absent"
    /\ temp_dir_guard = "unborn"
    /\ should_cleanup = FALSE
    /\ keep_called = FALSE
    /\ remove_calls = 0
    /\ endpoint = "unbound"
    /\ run_size = 0
    /\ cleanup_warnings = 0
    /\ run_error = "none"
    /\ serve_log = <<>>
    /\ meta_session = "absent"
    /\ session_source = FALSE
    /\ session_restored = FALSE

\* beam_session / receive_session about to call AgentBeam::new; the scratch
\* directory has a fresh random name, so it does not exist.
RunStart(r, mode, f) ==
    /\ role = r
    /\ connection_mode = mode
    /\ force = f
    /\ runPc = "new"
    /\ run_result = "none"
    /\ temp_dir = "absent"
    /\ temp_dir_guard = "unborn"
    /\ should_cleanup = FALSE
    /\ keep_called = FALSE
    /\ remove_calls = 0
    /\ endpoint = "unbound"
    /\ run_size = 0
    /\ cleanup_warnings = 0
    /\ run_error = "none"
    /\ serve_log = <<>>
    /\ meta_session = "absent"
    /\ session_source = FALSE
    /\ session_restored = FALSE

\* A teardown that does not read should_cleanup.
DropTempDirGuard_IgnoresCancel ==
    /\ temp_dir_guard' = "dropped"
    /\ remove_calls' = remove_calls + 1
    /\ temp_dir' = "absent"
    /\ UNCHANGED cleanup_warnings

\* Drop for TempDirGuard: nothing when cleanup was cancelled; otherwise one
\* remove_dir_all, which removes the directory or fails and leaves it (the
\* failure is logged when the path still exists, and not propagated).
DropTempDirGuard ==
    /\ temp_dir_guard' = "dropped"
    /\ IF ~should_cleanup
       THEN UNCHANGED <<temp_dir, remove_calls, cleanup_warnings>>
       ELSE /\ remove_calls' = remove_calls + 1
            /\ \/ /\ temp_dir' = "absent"
                  /\ UNCHANGED cleanup_warnings
               \/ /\ temp_dir = "present"
                  /\ temp_dir' = "present"
                  /\ cleanup_warnings' = cleanup_warnings + 1

\* A `?` or bail! that returns Err from the command while it owns the
\* AgentBeam: the value is dropped, its endpoint and its guard with it.
DropAgentBeam(error) ==
    /\ run_result' = "Err"
    /\ run_error' = error
    /\ runPc' = "done"
    /\ endpoint' = "dropped"
    /\ DropTempDirGuard

\* AgentBeam::new.  FsStore::load fails (having created the directory or
\* not) before any guard exists; or the guard is created and bind() fails,
\* which drops the guard; or the AgentBeam is returned.
AgentBeamNew ==
    /\ runPc = "new"
    /\ \/ /\ temp_dir' \in {"absent", "present"}
          /\ run_result' = "Err"
          /\ run_error' = "store"
          /\ runPc' = "done"
          /\ UNCHANGED <<temp_dir_guard, should_cleanup, remove_calls, endpoint,
                         cleanup_warnings>>
       \/ /\ should_cleanup' = TRUE
          /\ run_result' = "Err"
          /\ run_error' = "bind"
          /\ runPc' = "done"
          /\ remove_calls' = remove_calls + 1
          /\ temp_dir_guard' = "dropped"
          /\ \/ /\ temp_dir' = "absent"
                /\ UNCHANGED cleanup_warnings
             \/ /\ temp_dir' = "present"
                /\ cleanup_warnings' = cleanup_warnings + 1
          /\ UNCHANGED endpoint
       \/ /\ temp_dir' = "present"
          /\ temp_dir_guard' = "held"
          /\ should_cleanup' = TRUE
          /\ endpoint' = "bound"
          /\ runPc' = IF role = "sender" THEN "build" ELSE "receive"
          /\ UNCHANGED <<run_result, remove_calls, cleanup_warnings, run_error>>
    /\ UNCHANGED <<role, connection_mode, force, keep_called, run_size, serve_log, meta_session, session_source,
                   session_restored>>
    /\ UNCHANGED nonRunVars

\* AgentBeam::keep_temp_dir, on a live AgentBeam.
KeepTempDir ==
    /\ runPc \in {"build", "gate", "serve", "monitor", "receive", "restore", "git", "close"}
    /\ ~keep_called
    /\ keep_called' = TRUE
    /\ IF temp_dir_guard = "held"
       THEN should_cleanup' = FALSE
       ELSE UNCHANGED should_cleanup
    /\ UNCHANGED <<role, connection_mode, force, runPc, run_result, temp_dir,
                   temp_dir_guard, remove_calls, endpoint, run_size,
                   cleanup_warnings, run_error, serve_log, meta_session, session_source,
                   session_restored>>
    /\ UNCHANGED nonRunVars

\* beam_session: collect_files, add_to_collection, the metadata and
\* create_collection, each followed by `?`.
RunBuildCollection ==
    /\ runPc = "build"
    /\ \/ /\ DropAgentBeam("build")
          /\ UNCHANGED run_size
       \/ /\ run_size' \in RunSizes
          /\ runPc' = "gate"
          /\ UNCHANGED <<run_result, temp_dir, temp_dir_guard, remove_calls, endpoint,
                         cleanup_warnings, run_error>>
    /\ UNCHANGED <<role, connection_mode, force, should_cleanup, keep_called,
                   serve_log, meta_session, session_source,
                   session_restored>>
    /\ UNCHANGED nonRunVars

\* A sender that checks the size only when --force is absent and serves
\* whatever the outcome.
RunSizeGate_ServesAnyway ==
    /\ runPc = "gate"
    /\ runPc' = "serve"
    /\ UNCHANGED <<run_result, temp_dir, temp_dir_guard, remove_calls, endpoint,
                   cleanup_warnings, run_error>>
    /\ UNCHANGED <<role, connection_mode, force, should_cleanup, keep_called,
                   run_size, serve_log, meta_session, session_source,
                   session_restored>>
    /\ UNCHANGED nonRunVars

\* beam_session: the size limit.
RunSizeGate ==
    /\ runPc = "gate"
    /\ IF run_size > MAX_BEAM_SIZE /\ ~force
       THEN DropAgentBeam("size_limit")
       ELSE /\ runPc' = "serve"
            /\ UNCHANGED <<run_result, temp_dir, temp_dir_guard, remove_calls, endpoint,
                         cleanup_warnings, run_error>>
    /\ UNCHANGED <<role, connection_mode, force, should_cleanup, keep_called,
                   run_size, serve_log, meta_session, session_source,
                   session_restored>>
    /\ UNCHANGED nonRunVars

\* beam_session: the router is spawned, the ticket printed and
\* monitor_until_complete called.
RunServe ==
    /\ runPc = "serve"
    /\ serve_log' = <<"accept", "ticket">>
    /\ runPc' = "monitor"
    /\ UNCHANGED <<role, connection_mode, force, run_result, temp_dir,
                   temp_dir_guard, should_cleanup, keep_called, remove_calls,
                   endpoint, run_size, cleanup_warnings, run_error,
                   meta_session, session_source, session_restored>>
    /\ UNCHANGED nonRunVars

\* beam_session: monitor_until_complete().await? has returned, and it
\* returns Ok(()) only.
RunMonitorReturns ==
    /\ runPc = "monitor"
    /\ serve_log' = Append(serve_log, "monitor")
    /\ runPc' = "close"
    /\ UNCHANGED <<role, connection_mode, force, run_result, temp_dir,
                   temp_dir_guard, should_cleanup, keep_called, remove_calls,
                   endpoint, run_size, cleanup_warnings, run_error,
                   meta_session, session_source, session_restored>>
    /\ UNCHANGED nonRunVars

\* receive_session: receive_from_ticket(..)? (a fetch or an export fails,
\* or both succeed) and the count of the extracted files.  What was
\* extracted decides whether the target has a metadata file, whether it
\* can be read and parsed, whether it names a claude_session, and whether
\* the session log is in the target.
RunReceive ==
    /\ runPc = "receive"
    /\ \/ /\ DropAgentBeam("receive")
          /\ UNCHANGED <<meta_session, session_source>>
       \/ /\ meta_session' \in {"absent", "unreadable", "None", "Some"}
          /\ session_source' \in BOOLEAN
          /\ runPc' = "restore"
          /\ UNCHANGED <<run_result, temp_dir, temp_dir_guard, remove_calls, endpoint,
                         cleanup_warnings, run_error>>
    /\ UNCHANGED <<role, connection_mode, force, should_cleanup, keep_called,
                   run_size, serve_log, session_restored>>
    /\ UNCHANGED nonRunVars

\* receive_session: if the metadata file exists it is read and parsed (each
\* with `?`); if it names a claude_session and the session log is in the
\* target, ClaudeContext::restore(..)? runs; a named session without its
\* log is only reported.
RunRestoreSession ==
    /\ runPc = "restore"
    /\ IF meta_session = "absent"
       THEN /\ runPc' = "git"
            /\ UNCHANGED <<run_result, temp_dir, temp_dir_guard, remove_calls,
                           endpoint, cleanup_warnings, run_error, session_restored>>
       ELSE \/ /\ meta_session = "unreadable"
               /\ DropAgentBeam("metadata")
               /\ UNCHANGED session_restored
            \/ /\ meta_session = "Some" /\ session_source
               /\ DropAgentBeam("restore")
               /\ UNCHANGED session_restored
            \/ /\ meta_session # "unreadable"
               /\ session_restored' = (meta_session = "Some" /\ session_source)
               /\ runPc' = "git"
               /\ UNCHANGED <<run_result, temp_dir, temp_dir_guard, remove_calls,
                              endpoint, cleanup_warnings, run_error>>
    /\ UNCHANGED <<role, connection_mode, force, should_cleanup, keep_called,
                   run_size, serve_log, meta_session, session_source>>
    /\ UNCHANGED nonRunVars

\* receive_session: inside `if metadata_path.exists()`, git init and
\* checkout when the metadata has a git_context and the target no .git;
\* each output() is followed by `?`.
RunGitInit ==
    /\ runPc = "git"
    /\ \/ /\ meta_session \in {"None", "Some"}
          /\ DropAgentBeam("git")
       \/ /\ runPc' = "close"
          /\ UNCHANGED <<run_result, temp_dir, temp_dir_guard, remove_calls, endpoint,
                         cleanup_warnings, run_error>>
    /\ UNCHANGED <<role, connection_mode, force, should_cleanup, keep_called,
                   run_size, serve_log, meta_session, session_source,
                   session_restored>>
    /\ UNCHANGED nonRunVars

\* A shutdown that removes the scratch directory under the open endpoint.
EndpointClose_DropsGuardFirst ==
    /\ runPc = "close"
    /\ DropTempDirGuard
    /\ runPc' = "shutdown"
    /\ UNCHANGED <<role, connection_mode, force, run_result, should_cleanup,
                   keep_called, endpoint, run_size, run_error, serve_log, meta_session, session_source,
                   session_restored>>
    /\ UNCHANGED nonRunVars

\* AgentBeam::shutdown: self.endpoint.close().await
EndpointClose ==
    /\ runPc = "close"
    /\ endpoint' = "closed"
    /\ runPc' = "shutdown"
    /\ UNCHANGED <<role, connection_mode, force, run_result, temp_dir,
                   temp_dir_guard, should_cleanup, keep_called, remove_calls,
                   run_size, cleanup_warnings, run_error, serve_log, meta_session, session_source,
                   session_restored>>
    /\ UNCHANGED nonRunVars

\* A shutdown that returns the error of a failed removal.
AgentBeamShutdown_PropagatesRemoveError ==
    /\ runPc = "shutdown"
    /\ UNCHANGED endpoint
    /\ DropTempDirGuard
    /\ run_result' = IF cleanup_warnings' > cleanup_warnings \/ temp_dir = "absent"
                     THEN "Err" ELSE "Ok"
    /\ runPc' = "done"
    /\ UNCHANGED <<role, connection_mode, force, should_cleanup, keep_called,
                   run_size, run_error, serve_log, meta_session, session_source,
                   session_restored>>
    /\ UNCHANGED nonRunVars

\* AgentBeam::shutdown after the close: the guard is taken and dropped,
\* Ok(()); and the command's Ok(()).
AgentBeamShutdown ==
    /\ runPc = "shutdown"
    /\ UNCHANGED endpoint
    /\ DropTempDirGuard
    /\ run_result' = "Ok"
    /\ runPc' = "done"
    /\ UNCHANGED <<role, connection_mode, force, should_cleanup, keep_called,
                   run_size, run_error, serve_log, meta_session, session_source,
                   session_restored>>
    /\ UNCHANGED nonRunVars

\* Another process removes the scratch directory while the command runs.
ExternalRemove ==
    /\ runPc \in {"build", "gate", "serve", "monitor", "receive", "restore", "git",
                  "close", "shutdown"}
    /\ temp_dir = "present"
    /\ temp_dir' = "absent"
    /\ UNCHANGED <<role, connection_mode, force, runPc, run_result,
                   temp_dir_guard, should_cleanup, keep_called, remove_calls,
                   endpoint, run_size, cleanup_warnings, run_error, serve_log, meta_session, session_source,
                   session_restored>>
    /\ UNCHANGED nonRunVars

RunStep ==
    \/ AgentBeamNew
    \/ ExternalRemove
    \/ KeepTempDir
    \/ RunBuildCollection
    \/ RunSizeGate
    \/ RunServe
    \/ RunMonitorReturns
    \/ RunReceive
    \/ RunRestoreSession
    \/ RunGitInit
    \/ EndpointClose
    \/ AgentBeamShutdown

----------------------------------------------------------------------------
(* ClaudeContext::detect with get_git_state, and the git block of          *)
(* receive_session                                                         *)

\* Command::output(): the tool could not be spawned, or it ran and exited
\* with or without success, leaving `stdout`.
NotSpawned == [spawned |-> FALSE, success |-> FALSE, stdout |-> ""]

Exited(success, stdout) == [spawned |-> TRUE, success |-> success, stdout |-> stdout]

\* git branch --show-current: no tool, an error exit, a branch, or nothing
\* (detached HEAD).
BranchRuns ==
    {NotSpawned, Exited(FALSE, ""), Exited(TRUE, "main\n"),
     Exited(TRUE, "feat\n"), Exited(TRUE, "")}

\* git status --porcelain
StatusRuns ==
    {NotSpawned, Exited(FALSE, ""), Exited(TRUE, ""), Exited(TRUE, " M f\n")}

\* git remote get-url origin; the last output is not UTF-8.
RemoteRuns ==
    {NotSpawned, Exited(FALSE, ""), Exited(TRUE, "url\n"),
     Exited(TRUE, "<not utf-8>")}

\* git init, git checkout -b: the output is not looked at.
ToolRuns == {NotSpawned, Exited(FALSE, ""), Exited(TRUE, "")}

\* str::trim on the outputs above
Trim(stdout) ==
    CASE stdout = "main\n" -> "main"
      [] stdout = "feat\n" -> "feat"
      [] stdout = "url\n" -> "url"
      [] OTHER -> stdout

\* String::from_utf8(stdout).ok() is Some
IsUtf8(stdout) == stdout # "<not utf-8>"

\* No lookup was made.
NoLookups == [branch |-> NotSpawned, status |-> NotSpawned, remote |-> NotSpawned,
              made |-> FALSE]

\* The context before detect.
NoGitContext == [branch |-> "", has_changes |-> FALSE, remote_url |-> "None"]

\* get_git_state: Ok((main, false, None)) without .git; `?` on the output
\* of the branch and of the status command; the remote lookup is optional.
GetGitState(repo, b, st, r) ==
    IF ~repo
    THEN [ok |-> TRUE, branch |-> "main", has_changes |-> FALSE, remote_url |-> "None"]
    ELSE IF ~b.spawned \/ ~st.spawned
    THEN [ok |-> FALSE, branch |-> "", has_changes |-> FALSE, remote_url |-> "None"]
    ELSE [ok |-> TRUE,
          branch |-> IF b.success THEN Trim(b.stdout) ELSE "main",
          has_changes |-> st.stdout # "",
          remote_url |-> IF r.spawned /\ r.success /\ IsUtf8(r.stdout)
                         THEN Trim(r.stdout) ELSE "None"]

\* The manifests a receiver can find: none, one without git context, one
\* with the branch the sender recorded.
Manifests ==
    {[present |-> FALSE, has_git_context |-> FALSE, branch |-> ""],
     [present |-> TRUE, has_git_context |-> FALSE, branch |-> ""]}
    \cup [present : {TRUE}, has_git_context : {TRUE},
          branch : {"main", "master", "feat"}]

\* Neither detect nor the receiver's git block runs.
GitOff ==
    /\ ws_git = FALSE
    /\ ctxPc = "off"
    /\ detect_result = "none"
    /\ detect_error = "none"
    /\ git_lookups = NoLookups
    /\ git_context = NoGitContext
    /\ manifest = [present |-> FALSE, has_git_context |-> FALSE, branch |-> ""]
    /\ target_git = FALSE
    /\ ginitPc = "off"
    /\ git_runs = <<>>
    /\ ginit_result = "none"

\* A sender about to call detect on a workspace with or without .git, and
\* a receiver that has extracted manifest `m` into a target with or without
\* .git.
GitStart(repo, m, target_repo) ==
    /\ ws_git = repo
    /\ ctxPc = "detect"
    /\ detect_result = "none"
    /\ detect_error = "none"
    /\ git_lookups = NoLookups
    /\ git_context = NoGitContext
    /\ manifest = m
    /\ target_git = target_repo
    /\ ginitPc = "git"
    /\ git_runs = <<>>
    /\ ginit_result = "none"

\* ClaudeContext::detect: get_git_state(workspace)?, detect_session(..)?,
\* Ok(Self { .. }).
Detect ==
    /\ ctxPc = "detect"
    /\ ctxPc' = "done"
    /\ \E b \in BranchRuns, st \in StatusRuns, r \in RemoteRuns :
         LET state == GetGitState(ws_git, b, st, r)
         IN  /\ git_lookups' = IF ws_git
                               THEN [branch |-> b, status |-> st, remote |-> r,
                                     made |-> TRUE]
                               ELSE NoLookups
             /\ IF ~state.ok
                THEN /\ detect_result' = "Err"
                     /\ detect_error' = "git"
                     /\ UNCHANGED git_context
                ELSE \/ /\ detect_result' = "Err"
                        /\ detect_error' = "session"
                        /\ UNCHANGED git_context
                     \/ /\ detect_result' = "Ok"
                        /\ git_context' = [branch |-> state.branch,
                                           has_changes |-> state.has_changes,
                                           remote_url |-> state.remote_url]
                        /\ UNCHANGED detect_error
    /\ UNCHANGED <<ws_git, manifest, target_git, ginitPc, git_runs, ginit_result>>
    /\ UNCHANGED nonGitVars

\* receive_session: `if let Some(git) = &metadata.git_context` inside
\* `if metadata_path.exists()`: git init when the target has no .git, then
\* git checkout -b <branch> unless the branch is main or master; each
\* output()? returns the spawn error, the exit status is not looked at.
GitInit ==
    /\ ginitPc = "git"
    /\ ginitPc' = "done"
    /\ IF manifest.present /\ manifest.has_git_context /\ ~target_git
       THEN \E init \in ToolRuns, checkout \in ToolRuns :
              LET ran_init == <<[args |-> "init", run |-> init]>>
                  ran_checkout == <<[args |-> "checkout -b " \o manifest.branch,
                                     run |-> checkout]>>
              IN  /\ target_git' = (init.spawned /\ init.success)
                  /\ IF ~init.spawned
                     THEN /\ git_runs' = ran_init
                          /\ ginit_result' = "Err"
                     ELSE IF manifest.branch \notin {"main", "master"}
                     THEN /\ git_runs' = ran_init \o ran_checkout
                          /\ ginit_result' = IF checkout.spawned THEN "Ok" ELSE "Err"
                     ELSE /\ git_runs' = ran_init
                          /\ ginit_result' = "Ok"
       ELSE /\ ginit_result' = "Ok"
            /\ UNCHANGED <<target_git, git_runs>>
    /\ UNCHANGED <<ws_git, ctxPc, detect_result, detect_error, git_lookups,
                   git_context, manifest>>
    /\ UNCHANGED nonGitVars

GitStep ==
    \/ Detect
    \/ GitInit

----------------------------------------------------------------------------
(* The monitor on its own, with and without an indicator sink *)

InitMon ==
    /\ \E sink \in BOOLEAN : MonitorStart(sink)
    /\ ReceiverOff
    /\ BuilderOff
    /\ RestoreOff
    /\ RunOff
    /\ GitOff
    /\ IgnoreOff

NextMon == MonitorStep

SpecMon == InitMon /\ [][NextMon]_vars

----------------------------------------------------------------------------
(* The receiver on its own, with and without an indicator sink *)

InitRecv ==
    /\ \E sink \in BOOLEAN : ReceiverStart(sink)
    /\ MonitorOff
    /\ BuilderOff
    /\ RestoreOff
    /\ RunOff
    /\ GitOff
    /\ IgnoreOff

NextRecv == ReceiverStep

\* The runtime keeps polling a spawned relay task, and the fetch loop.
SpecRecv == InitRecv /\ [][NextRecv]_vars /\ WF_vars(NextRecv)

----------------------------------------------------------------------------
(* Packaging on its own: every workspace of at most MaxFiles files, every  *)
(* set of ignored files, with and without a detected session               *)

Workspaces == { ws \in SUBSET WorkspacePaths : Cardinality(ws) <= MaxFiles }

\* The session directories packaging is run with: none, an empty one, one
\* without a log, one with a log.
BuildClaudeDirs ==
    { NoClaudeDir,
      [exists |-> TRUE, listing |-> <<>>],
      [exists |-> TRUE,
       listing |-> <<[name |-> "n.txt", modified |-> [ok |-> TRUE, time |-> 1]]>>],
      [exists |-> TRUE,
       listing |-> <<[name |-> "a.jsonl", modified |-> [ok |-> TRUE, time |-> 1]]>>] }

InitBuild ==
    /\ \E ws \in Workspaces : \E ign \in SUBSET ws :
       \E dir \in BuildClaudeDirs : \E sink \in BOOLEAN :
          BuilderStart(ws, ign, dir, sink)
    /\ MonitorOff
    /\ ReceiverOff
    /\ RestoreOff
    /\ RunOff
    /\ GitOff
    /\ IgnoreOff

NextBuild == BuilderStep

SpecBuild == InitBuild /\ [][NextBuild]_vars

----------------------------------------------------------------------------
(* detect_session on its own: every session directory of at most           *)
(* MaxEntries entries, in every listing order                              *)

InitFind ==
    /\ \E dir \in ClaudeDirs : BuilderStart({}, {}, dir, FALSE)
    /\ MonitorOff
    /\ ReceiverOff
    /\ RestoreOff
    /\ RunOff
    /\ GitOff
    /\ IgnoreOff

NextFind == FindSession

SpecFind == InitFind /\ [][NextFind]_vars

InitIgnore ==
    /\ \/ IgnoreStart(FALSE, <<>>)
       \/ \E text \in IgnoreTexts : IgnoreStart(TRUE, text)
    /\ MonitorOff
    /\ ReceiverOff
    /\ BuilderOff
    /\ RestoreOff
    /\ RunOff
    /\ GitOff

NextIgnore == EnsureGitignoreHasAgentbeamPattern

SpecIgnore == InitIgnore /\ [][NextIgnore]_vars

----------------------------------------------------------------------------
(* Detect and restore on their own: every log of at most MaxLines lines    *)
(* into every session directory                                            *)

InitRestore ==
    /\ \E content \in SessionLogs : \E dir \in SessionDirs :
          RestoreStart(content, dir)
    /\ MonitorOff
    /\ ReceiverOff
    /\ BuilderOff
    /\ RunOff
    /\ GitOff
    /\ IgnoreOff

NextRestore == RestoreStep

SpecRestore == InitRestore /\ [][NextRestore]_vars

----------------------------------------------------------------------------
(* A sender's or a receiver's run around AgentBeam, in every connection    *)
(* mode, with and without --force                                          *)

InitRun ==
    /\ \E r \in {"sender", "receiver"} : \E mode \in ConnectionModes :
       \E f \in BOOLEAN : RunStart(r, mode, f)
    /\ MonitorOff
    /\ ReceiverOff
    /\ BuilderOff
    /\ RestoreOff
    /\ GitOff
    /\ IgnoreOff

NextRun == RunStep

SpecRun == InitRun /\ [][NextRun]_vars

----------------------------------------------------------------------------
(* The version-control steps: detect on the sender, the git block on the   *)
(* receiver                                                                *)

InitGit ==
    /\ \E repo \in BOOLEAN : \E m \in Manifests : \E target_repo \in BOOLEAN :
          GitStart(repo, m, target_repo)
    /\ MonitorOff
    /\ ReceiverOff
    /\ BuilderOff
    /\ RestoreOff
    /\ RunOff
    /\ IgnoreOff

NextGit == GitStep

SpecGit == InitGit /\ [][NextGit]_vars

----------------------------------------------------------------------------
(* Claims *)

IsType(i, t) == log[i].type = t

ConnectedBefore(i) == \E j \in 1..(i - 1) : IsType(j, "ClientConnected")

\* The monitor left its loop through the ConnectionClosed arm at event i.
ReturnedAt(i) ==
    /\ i = Len(log)
    /\ monPc = "grace" \/ (monPc = "done" /\ monExit = "ConnectionClosed")

\* C1: a ConnectionClosed event makes monitor_until_complete return exactly
\* when a ClientConnected event was consumed before it; a ConnectionClosed
\* consumed before any ClientConnected is ignored (the monitor stays in its
\* receive loop), and the ConnectionClosed return is taken only on such an
\* event.
C1_ReturnsOnCloseIffConnected ==
    /\ \A i \in 1..Len(log) :
          IsType(i, "ConnectionClosed") => (ReturnedAt(i) <=> ConnectedBefore(i))
    /\ (monPc = "grace" \/ monExit = "ConnectionClosed")
          => (log # <<>> /\ Last(log).type = "ConnectionClosed")

\* A ConnectionClosed was ignored before any peer connected, and a later
\* one, after a connect, ended the monitor.
C1_Witness ==
    /\ monPc = "done"
    /\ monExit = "ConnectionClosed"
    /\ Len(log) = 3
    /\ IsType(1, "ConnectionClosed")
    /\ IsType(2, "ClientConnected")

\* C2: after a TransferCompleted event, also one that empties
\* active_transfers, the monitor is still receiving; it has returned only
\* through the ConnectionClosed arm (after a ClientConnected) or because the
\* queue closed.
C2_CompletedNeverReturns ==
    /\ (log # <<>> /\ Last(log).type = "TransferCompleted")
          => (monPc = "recv" \/ (monPc = "done" /\ monExit = "QueueClosed"))
    /\ monPc = "done" =>
          \/ monExit = "QueueClosed"
          \/ /\ monExit = "ConnectionClosed"
             /\ log # <<>>
             /\ Last(log).type = "ConnectionClosed"
             /\ ConnectedBefore(Len(log))

\* The last active transfer completed and the monitor is still receiving.
C2_Witness ==
    /\ Len(log) = 3
    /\ IsType(1, "ClientConnected")
    /\ IsType(2, "TransferStarted")
    /\ IsType(3, "TransferCompleted")
    /\ log[2].request_id = log[3].request_id
    /\ active_transfers = {}
    /\ monPc = "recv"

NetworkCalls == {"connect", "seq_info", "get", "settle"}

\* C3: when the local-completeness query reports the hash complete,
\* receive_from_ticket opens no connection, issues no sequence-info request
\* and no get request and takes no settling delay: the call after the query
\* is the collection load, followed only by exports.
C3_CompleteSkipsNetwork ==
    local_complete = "complete" =>
        /\ \A i \in 1..Len(calls) : calls[i] \notin NetworkCalls
        /\ rcvPc \in {"load", "export", "done", "failed"}
        /\ fetched = 0 /\ progress_task = "none" /\ ~dl_bar.present
        /\ calls[1] = "local"
        /\ Len(calls) >= 2 => calls[2] = "load"
        /\ \A i \in 3..Len(calls) : calls[i] = "export"

\* A complete local store was exported with success.
C3_Witness ==
    /\ local_complete = "complete"
    /\ rcvPc = "done"
    /\ rcvResult = "Ok"
    /\ Len(rcv_collection) = 2
    /\ exported = {rcv_collection[1], rcv_collection[2]}

\* C6: in download_blob the fetch loop never waits forever on the relay
\* channel, with or without an indicator: whenever tx.send is waiting on a
\* full channel, a relay task is running that will take an item out of it.
C6_RelayNeverBlocks ==
    (rcvPc = "send" /\ Len(relay) = RelayCapacity) => progress_task = "running"

\* Some component of `path` (at the root or below a '/') begins with the
\* scratch prefix.
HasScratchComponent(path) ==
    \E i \in 1..Len(path) :
        /\ i = 1 \/ path[i - 1] = "/"
        /\ i + Len(ScratchPrefix) - 1 <= Len(path)
        /\ SubSeq(path, i, i + Len(ScratchPrefix) - 1) = ScratchPrefix

Names(items) == [i \in 1..Len(items) |-> items[i].name]

PairwiseDistinct(s) == \A i, j \in 1..Len(s) : s[i] = s[j] => i = j

\* The manifest is in ascending order of relative path.
SortedByRel(fs) == \A i \in 1..(Len(fs) - 1) : ~StrLess(fs[i + 1].rel, fs[i].rel)

\* C4: every Collection a send run produces has pairwise distinct entry
\* names and `.agentbeam-metadata.json` as its last entry, whatever the
\* workspace holds and whether or not a session log is attached.
C4_CollectionNamesDistinct ==
    sndPc = "gate" =>
        /\ PairwiseDistinct(Names(collection))
        /\ Last(collection).name = MetadataEntryName

\* C9: no file of the workspace whose relative path has a component that
\* begins with `.agentbeam-` is in the manifest collect_files returns (nor
\* in the manifest after add_to_collection), ignored or not.
C9_ScratchNeverCollected ==
    \A p \in workspace :
        HasScratchComponent(p) =>
            \A i \in 1..Len(files) : files[i].src # p /\ files[i].rel # p

\* collect_files returned a manifest for a workspace that holds scratch
\* files no ignore rule matches, at the root and in a subdirectory, next to
\* a file that has the prefix inside a component.
C9_Witness ==
    /\ sndPc = "add"
    /\ ignored = {}
    /\ \E p \in workspace : StartsWith(p, ScratchPrefix) /\ p # MetadataEntryName
    /\ \E p \in workspace : HasScratchComponent(p) /\ ~StartsWith(p, ScratchPrefix)
    /\ Len(files) = 1
    /\ ~HasScratchComponent(files[1].src)
    /\ Contains(files[1].rel, ScratchPrefix)

\* C10: the manifest handed to create_collection is sorted by relative
\* path, also when the session log is attached.
C10_ManifestSorted ==
    sndPc \in {"metadata", "import", "gate"} => SortedByRel(files)

\* A restore has just returned Ok.
RestoredOk == restores' = restores + 1 /\ rst_result' = "Ok"

\* C7: a restore that finds `<original id>.jsonl` in the session directory
\* leaves that file (and every other file it found) unchanged and writes
\* the log to `<original id>-agentbeam.jsonl`; a restore that does not find
\* it writes to a new id that no file of the directory had.
C7_CollisionKeepsOriginal ==
    [][ RestoredOk =>
          LET orig == claude_info.original_session_id
          IN  /\ IF orig \in DOMAIN session_dir
                 THEN /\ new_session_id' = orig \o "-agentbeam"
                      /\ session_dir'[orig] = session_dir[orig]
                 ELSE /\ new_session_id' \notin DOMAIN session_dir
                      /\ new_session_id' \notin {orig, orig \o "-agentbeam"}
              /\ DOMAIN session_dir' = DOMAIN session_dir \cup {new_session_id'}
              /\ \A id \in DOMAIN session_dir \ {new_session_id'} :
                    session_dir'[id] = session_dir[id]
      ]_vars

\* A log with records was restored next to an existing log of the same id.
C7_Witness ==
    /\ rst_result = "Ok"
    /\ new_session_id = OrigId \o "-agentbeam"
    /\ OrigId \in DOMAIN session_dir
    /\ session_dir[OrigId] = ExistingLog
    /\ Len(session_dir[new_session_id]) = 2
    /\ session_dir[new_session_id][1].sessionId = new_session_id

\* C8: a restore of a log for which detect reported N entries writes a log
\* of exactly N entries, in the order of the source, in which every record
\* with a session-identifier field carries the new id and none the original
\* id.
C8_RoundTripKeepsEntries ==
    (rstPc = "restore" /\ rst_result = "Ok") =>
        LET out == session_dir[new_session_id]
        IN  /\ Len(out) = claude_info.entry_count
            /\ \A i \in 1..Len(out) :
                  /\ out[i].sessionId \in {"absent", new_session_id}
                  /\ out[i].sessionId # claude_info.original_session_id
                  /\ i <= Len(source_log) =>
                        /\ out[i].kind = source_log[i].kind
                        /\ out[i].payload = source_log[i].payload

\* C5: when a sender's or a receiver's run has ended, on whatever path
\* after AgentBeam::new began, and keep_temp_dir was not called, the scratch
\* directory was removed exactly once and does not exist.
C5_ScratchRemovedOnEveryExit ==
    (runPc = "done" /\ ~keep_called) =>
        /\ remove_calls = 1
        /\ temp_dir = "absent"

\* The relative paths of a manifest, in order.
Rels(fs) == [i \in 1..Len(fs) |-> fs[i].rel]

\* C11: collect_files yields the same sequence of relative paths for every
\* order in which the walk can visit the files of the workspace, and no
\* relative path is in that sequence twice.
C11_CollectDeterministic ==
    sndPc = "add" =>
        /\ \A order \in WalkOrders(workspace \ ignored) :
              Rels(CollectedFiles(order)) = Rels(files)
        /\ PairwiseDistinct(Rels(files))

\* The step in which the TempDirGuard is dropped.
Teardown == temp_dir_guard # "dropped" /\ temp_dir_guard' = "dropped"

\* C12 (as stated): teardown removes the scratch directory if and only if
\* keep_temp_dir / cancel_cleanup was not called before it; after the call
\* the flag is never set again and teardown leaves the directory untouched.
C12_RemovesIffNotCancelled ==
    [][ /\ Teardown =>
            IF ~keep_called
            THEN temp_dir' = "absent"
            ELSE UNCHANGED <<temp_dir, remove_calls>>
        /\ (temp_dir_guard = "held" /\ ~should_cleanup) => ~should_cleanup'
      ]_vars

\* C12 (amended): teardown calls remove_dir_all, once, if and only if
\* cancel_cleanup was not called before it; after that call the directory
\* is gone, or the call failed, the directory is still there and a warning
\* was logged.  After cancel_cleanup the flag is never set again and
\* teardown leaves the directory untouched.
C12_RemovalAttemptedIffNotCancelled ==
    [][ /\ Teardown =>
            IF ~keep_called
            THEN /\ remove_calls' = remove_calls + 1
                 /\ \/ temp_dir' = "absent" /\ UNCHANGED cleanup_warnings
                    \/ /\ temp_dir' = "present"
                       /\ cleanup_warnings' = cleanup_warnings + 1
            ELSE UNCHANGED <<temp_dir, remove_calls, cleanup_warnings>>
        /\ (temp_dir_guard = "held" /\ ~should_cleanup) => ~should_cleanup'
      ]_vars

\* A run was shut down after keep_temp_dir: the directory is still there
\* and remove_dir_all was never called.
C12_Witness ==
    /\ temp_dir_guard = "dropped"
    /\ keep_called
    /\ ~should_cleanup
    /\ run_result = "Ok"
    /\ temp_dir = "present"
    /\ remove_calls = 0

\* C13: the step that drops the guard always completes and ends the run
\* with the result of the path it is on (Ok from shutdown, Err from a `?`),
\* whether the directory was removed, was already gone, or could not be
\* removed; a failed removal only adds a warning, and a directory that was
\* already gone adds none.
C13_TeardownNeverFails ==
    [][ Teardown =>
          /\ runPc' = "done"
          /\ run_result' = IF runPc = "shutdown" THEN "Ok" ELSE "Err"
          /\ cleanup_warnings' > cleanup_warnings => temp_dir' = "present"
          /\ (runPc # "new" /\ temp_dir = "absent") =>
                UNCHANGED <<temp_dir, cleanup_warnings>>
      ]_vars

\* A shutdown whose remove_dir_all failed: the directory is still there,
\* one warning was logged, and the run returned Ok.
C13_Witness ==
    /\ runPc = "done"
    /\ run_result = "Ok"
    /\ temp_dir_guard = "dropped"
    /\ should_cleanup
    /\ remove_calls = 1
    /\ temp_dir = "present"
    /\ cleanup_warnings = 1

\* C14: when the event queue closes, monitor_until_complete has returned
\* Ok(()), whether or not a ClientConnected was consumed before the closure
\* and whatever transfers were still active.
C14_QueueClosedIsSuccess ==
    monExit = "QueueClosed" => (monPc = "done" /\ monResult = "Ok")

\* The queue closed on a connected peer, in the middle of a transfer,
\* without any ConnectionClosed.
C14_Witness ==
    /\ monExit = "QueueClosed"
    /\ monResult = "Ok"
    /\ connected
    /\ active_transfers # {}
    /\ \A i \in 1..Len(log) : ~IsType(i, "ConnectionClosed")

\* An event has just been consumed.
Consumed == Len(log') = Len(log) + 1

\* C15: a TransferAborted event removes only its own request id from the
\* active set and closes only that id's indicator (with the aborted
\* message); the monitor stays in its receive loop, and whenever it has
\* returned its result is Ok.
C15_AbortIsLocal ==
    [][ /\ (Consumed /\ Last(log').type = "TransferAborted") =>
            LET id == Last(log').request_id
            IN  /\ active_transfers' = active_transfers \ {id}
                /\ DOMAIN transfer_bars' = DOMAIN transfer_bars \ {id}
                /\ \A k \in DOMAIN transfer_bars' :
                      transfer_bars'[k] = transfer_bars[k]
                /\ finished_bars' =
                      IF id \in DOMAIN transfer_bars
                      THEN Append(finished_bars,
                                  [request_id |-> id, message |-> "aborted"])
                      ELSE finished_bars
                /\ monPc' = "recv"
                /\ monResult' = "none"
        /\ monPc' = "done" => monResult' = "Ok"
      ]_vars

\* One of two running transfers was aborted: the other is still active,
\* with its indicator, and the monitor is receiving.
C15_Witness ==
    /\ mp
    /\ Len(log) = 3
    /\ IsType(1, "TransferStarted")
    /\ IsType(2, "TransferStarted")
    /\ IsType(3, "TransferAborted")
    /\ log[3].request_id = log[1].request_id
    /\ active_transfers = {log[2].request_id}
    /\ DOMAIN transfer_bars = {log[2].request_id}
    /\ Len(finished_bars) = 1
    /\ monPc = "recv"

\* The ClientConnected events consumed so far, in order.
ConnectEvents == SelectSeq(log, LAMBDA e : e.type = "ClientConnected")

\* C16: the answers sent on `permitted` are, in order, one `true` for each
\* ClientConnected event consumed so far (so each is sent before the next
\* event is consumed), for any number of peers; after a ClientConnected the
\* monitor is still receiving, delivered or not.
C16_AlwaysApproves ==
    /\ Len(permits) = Len(ConnectEvents)
    /\ \A i \in 1..Len(permits) :
          /\ permits[i].connection_id = ConnectEvents[i].connection_id
          /\ permits[i].permitted = TRUE
    /\ (log # <<>> /\ Last(log).type = "ClientConnected") =>
          (monPc = "recv" \/ (monPc = "done" /\ monExit = "QueueClosed"))

\* Two peers connected; the approval of the first could not be delivered,
\* and the monitor consumed a third event.
C16_Witness ==
    /\ Len(log) = 3
    /\ IsType(1, "ClientConnected")
    /\ IsType(2, "ClientConnected")
    /\ log[1].connection_id # log[2].connection_id
    /\ ~permits[1].delivered
    /\ permits[2].permitted
    /\ monPc = "recv"

\* C17: in a sender's run the router accepts connections, the ticket is
\* made and the monitor runs only after create_collection returned a
\* total_size that is at most the limit, or with --force; a larger
\* collection without --force ends the run at the size check with the
\* size-limit error and none of the three, and that error has no other
\* cause.
C17_ServeOnlyWithinLimit ==
    role = "sender" =>
        /\ serve_log # <<>> =>
              /\ run_size \in RunSizes
              /\ run_size <= MAX_BEAM_SIZE \/ force
        /\ (run_size > MAX_BEAM_SIZE /\ ~force /\ runPc # "gate") =>
              /\ runPc = "done"
              /\ run_result = "Err"
              /\ run_error = "size_limit"
              /\ serve_log = <<>>
        /\ run_error = "size_limit" =>
              (run_size \in RunSizes /\ run_size > MAX_BEAM_SIZE /\ ~force)

\* A collection one unit over the limit was built and rejected.
C17_Witness ==
    /\ role = "sender"
    /\ ~force
    /\ run_size = MAX_BEAM_SIZE + 1
    /\ runPc = "done"
    /\ run_error = "size_limit"
    /\ serve_log = <<>>

\* C18: detect never returns the error of a version-control lookup; when
\* it succeeds, a workspace without .git and every lookup that could not be
\* run or exited with an error gives the degraded value: branch `main`, no
\* uncommitted changes, no remote URL.
C18_DetectSurvivesGit ==
    ctxPc = "done" =>
        /\ detect_error # "git"
        /\ detect_result = "Ok" =>
              /\ ~ws_git => git_context = [branch |-> "main",
                                           has_changes |-> FALSE,
                                           remote_url |-> "None"]
              /\ git_lookups.made =>
                    /\ ~git_lookups.branch.success => git_context.branch = "main"
                    /\ ~git_lookups.status.success => ~git_context.has_changes
                    /\ ~git_lookups.remote.success => git_context.remote_url = "None"

\* C19: the git block of receive_session runs a command exactly when the
\* manifest is there, carries git context and the target has no .git; it
\* runs `checkout -b` only for a branch other than main and master; and it
\* never returns an error, whatever the tool does.
C19_GitInitBestEffort ==
    [][ (ginitPc = "git" /\ ginitPc' = "done") =>
          /\ git_runs' # <<>> <=>
                (manifest.present /\ manifest.has_git_context /\ ~target_git)
          /\ Len(git_runs') > 1 => manifest.branch \notin {"main", "master"}
          /\ \A i \in 1..Len(git_runs') :
                git_runs'[i].args = "init" <=> i = 1
          /\ ginit_result' = "Ok"
      ]_vars

\* The step of one restore.
Restored == restores' = restores + 1

\* The line has characters and serde_json cannot parse it: text that is no
\* JSON, or whitespace only.
FailsToParse(line) == IsMalformed(line) \/ (IsBlank(line) /\ line.spaced)

\* The lines of `content` that are not blank after trim().
NonBlank(content) == SelectSeq(content, LAMBDA l : ~IsBlank(l))

\* C20 (as stated): when a non-empty line of the log does not parse,
\* restore returns the parse error (unless an I/O error came first) and no
\* log file of the session directory is created or changed; a restore that
\* succeeds has written one entry for every non-empty line.
C20_NonEmptyUnparsedLineFails ==
    [][ Restored =>
          /\ (\E i \in 1..Len(source_log) : FailsToParse(source_log[i])) =>
                /\ rst_result' = "Err"
                /\ rst_error' \in {"io", "parse"}
                /\ session_dir' = session_dir
          /\ rst_result' = "Ok" =>
                Len(session_dir'[new_session_id']) =
                   Len(SelectSeq(source_log, LAMBDA l : ~(IsBlank(l) /\ ~l.spaced)))
      ]_vars

\* C20 (amended): when a line of the log that is not blank (not empty after
\* trimming whitespace) does not parse, restore returns the parse error
\* (unless an I/O error came first) and no log file of the session
\* directory is created or changed; the parse error has no other cause; a
\* restore that succeeds has written one entry for every line that is not
\* blank.
C20_MalformedLineFails ==
    [][ Restored =>
          /\ (\E i \in 1..Len(source_log) : IsMalformed(source_log[i])) =>
                /\ rst_result' = "Err"
                /\ rst_error' \in {"io", "parse"}
                /\ session_dir' = session_dir
          /\ rst_error' = "parse" =>
                \E i \in 1..Len(source_log) : IsMalformed(source_log[i])
          /\ rst_result' = "Ok" =>
                Len(session_dir'[new_session_id']) = Len(NonBlank(source_log))
      ]_vars

\* A log whose second line is malformed, after a record that parses, was
\* restored next to an existing log: parse error, and no `-agentbeam` copy
\* exists.
C20_Witness ==
    /\ restores = 1
    /\ rst_result = "Err"
    /\ rst_error = "parse"
    /\ Len(source_log) = 2
    /\ source_log[1].kind = "object"
    /\ IsMalformed(source_log[2])
    /\ DOMAIN session_dir = {OrigId}
    /\ session_dir[OrigId] = ExistingLog

\* The session directory is missing or has no entry with extension jsonl.
NoLog(dir) ==
    \/ ~dir.exists
    \/ \A i \in 1..Len(dir.listing) : Extension(dir.listing[i].name) # "jsonl"

LogEntries(dir) ==
    { i \in 1..Len(dir.listing) : Extension(dir.listing[i].name) = "jsonl" }

\* C30: when detect_session has returned, the selected session file is an
\* entry with extension jsonl whose modification time is at least that of
\* every other such entry whose time can be read (an entry whose time
\* cannot be read is selected only when no time can be read); it is None
\* when the directory is missing or has no entry with that extension.
C30_LatestLogSelected ==
    sndPc = "collect" =>
        IF LogEntries(claude_dir) = {}
        THEN session_file = "None" /\ session = "None"
        ELSE /\ session = "Some"
             /\ \E i \in LogEntries(claude_dir) :
                   /\ claude_dir.listing[i].name = session_file
                   /\ \A j \in LogEntries(claude_dir) :
                         claude_dir.listing[j].modified.ok =>
                            /\ claude_dir.listing[i].modified.ok
                            /\ claude_dir.listing[j].modified.time
                                  <= claude_dir.listing[i].modified.time

\* The newer of two logs is listed first and was selected.
C30_Witness ==
    /\ sndPc = "collect"
    /\ Len(claude_dir.listing) = 2
    /\ LogEntries(claude_dir) = {1, 2}
    /\ claude_dir.listing[1].modified = [ok |-> TRUE, time |-> 2]
    /\ claude_dir.listing[2].modified = [ok |-> TRUE, time |-> 1]
    /\ session_file = claude_dir.listing[1].name

\* beam_session has returned the error of the import of manifest entry
\* import_idx.
ImportFailed == sndPc = "unwind" /\ import_idx \in 1..Len(files)

\* The entry create_collection pushes for the metadata.
IsMetadataItem(item) == item.name = MetadataEntryName /\ item.src = <<"m">>

\* C22: an error is returned at once (the build is left in the step that
\* sets the error); after a failed import of manifest entry i the items are
\* those of the entries before i, there is no metadata item, no Collection
\* is stored, and nothing more happens: no later import, no store, no
\* arrival at the size check that precedes the ticket.
C22_ImportFailureAborts ==
    [][ /\ ~ImportFailed
        /\ sndResult' = "Err" => sndPc' = "unwind"
        /\ ImportFailed' =>
              /\ sndResult' = "Err"
              /\ Len(collection_items') = import_idx' - 1
              /\ \A i \in 1..Len(collection_items') :
                    /\ collection_items'[i].name = files'[i].rel
                    /\ ~IsMetadataItem(collection_items'[i])
              /\ collection' = <<>>
      ]_vars

\* The import of the second of three manifest entries failed.
C22_Witness ==
    /\ ImportFailed
    /\ Len(files) = 3
    /\ import_idx = 2
    /\ Len(collection_items) = 1
    /\ collection = <<>>
    /\ sndResult = "Err"

\* C26: while create_collection imports, the items pushed so far are those
\* of the manifest entries before import_idx, one for one and in manifest
\* order (so the import of an entry begins only when every entry before it
\* has its tag); the metadata item is pushed only when every manifest entry
\* has its item, as the last one; the stored Collection is exactly these
\* items.
C26_SequentialManifestOrder ==
    import_idx >= 1 =>
        /\ sndPc = "import" => Len(collection_items) = import_idx - 1
        /\ Len(collection_items) <= Len(files) + 1
        /\ \A i \in 1..Len(collection_items) :
              IF i <= Len(files)
              THEN /\ collection_items[i].name = files[i].rel
                   /\ collection_items[i].src = files[i].src
              ELSE IsMetadataItem(collection_items[i])
        /\ sndPc = "gate" =>
              /\ collection = collection_items
              /\ Len(collection) = Len(files) + 1

\* Three manifest entries were imported and stored with the metadata.
C26_Witness ==
    /\ sndPc = "gate"
    /\ Len(files) = 3
    /\ Len(collection) = 4
    /\ \A i \in 1..3 : collection[i].name = files[i].rel
    /\ IsMetadataItem(collection[4])

RECURSIVE SumSeq(_)
SumSeq(sizes) == IF sizes = <<>> THEN 0 ELSE Head(sizes) + SumSeq(Tail(sizes))

\* C29: the advisory is printed only after the import loop, for a total
\* above WARN_THRESHOLD with an indicator sink; no error of the build comes
\* from it; the total is the sum of the sizes read, and the build that
\* returns has read the size of every manifest entry and stored every entry
\* and the metadata, with or without the advisory.
C29_AdvisoryOnly ==
    /\ advisory => (total_size > WARN_THRESHOLD /\ bld_mp)
    /\ (sndPc = "import" /\ import_idx <= Len(files)) => ~advisory
    /\ snd_error \in {"none", "read_dir", "walk", "size", "import", "add_slice", "store"}
    /\ total_size = SumSeq(file_sizes)
    /\ sndPc = "gate" =>
          /\ advisory <=> (total_size > WARN_THRESHOLD /\ bld_mp)
          /\ Len(file_sizes) = Len(files)
          /\ Names(collection) = Rels(files) \o <<MetadataEntryName>>

\* A workspace above the threshold was packaged with a sink: the advisory
\* was printed and the Collection stored.
C29_Witness ==
    /\ sndPc = "gate"
    /\ advisory
    /\ Len(files) = 2
    /\ file_sizes = <<3, 0>>
    /\ total_size = 3
    /\ Len(collection) = 3

\* The calls the receiver has made.
Called(call) == \E i \in 1..Len(calls) : calls[i] = call

\* C23: when endpoint.connect or get_hash_seq_and_sizes fails, or the fetch
\* stream yields an Error item, receive_from_ticket has returned Err at that
\* point: the collection was never loaded, export_collection never called,
\* no file written; and nothing is done after the return.
C23_DownloadFailureStopsReceive ==
    /\ rcv_error \in {"connect", "seq_info", "stream"} =>
          /\ rcvPc = "failed"
          /\ rcvResult = "Err"
          /\ ~Called("settle")
          /\ ~Called("load")
          /\ ~Called("export")
          /\ rcv_collection = <<>>
          /\ exported = {}
    /\ rcvPc = "failed" <=> rcv_error # "none"
    /\ rcvPc = "failed" => ~ENABLED ReceiverStep \/ progress_task = "running"

\* The fetch stream yielded an Error item after two Progress items.
C23_Witness ==
    /\ rcv_error = "stream"
    /\ fetched = 2
    /\ calls = <<"local", "connect", "seq_info", "local", "get">>
    /\ rcvResult = "Err"

\* The calls made, without the queries of the local store.
RECURSIVE RemoteCalls(_)
RemoteCalls(cs) ==
    IF cs = <<>> THEN <<>>
    ELSE IF Head(cs) = "local" THEN RemoteCalls(Tail(cs))
    ELSE <<Head(cs)>> \o RemoteCalls(Tail(cs))

\* The order of a download: connect, sequence-info, get, settling delay,
\* load; only exports follow.
DownloadOrder == <<"connect", "seq_info", "get", "settle", "load">>

\* The fetch stream has ended (Done, or no more items) and the loop of
\* download_blob was left without an error.
FetchCompleted == rcvPc \notin {"fetch", "send", "failed"} /\ ~tx_open /\ Called("get")

\* C24: with an incomplete local store the calls made so far follow
\* DownloadOrder (a prefix of it, then exports only); the get request asks
\* for the ranges the local store reported as missing, no more and no less;
\* the settling delay and the load come only after the end of the fetch.
C24_DownloadOrder ==
    local_complete = "incomplete" =>
        /\ LET rc == RemoteCalls(calls)
           IN  \A i \in 1..Len(rc) :
                  IF i <= Len(DownloadOrder)
                  THEN rc[i] = DownloadOrder[i]
                  ELSE rc[i] = "export"
        /\ Called("get") => requested = Missing(local_size)
        /\ (Called("settle") \/ Called("load")) =>
              \/ FetchCompleted
              \/ rcvPc = "failed" /\ rcv_error \in {"load", "export"}

\* A store that held one byte asked for the other one, and the receiver
\* went through the whole order up to the second export.
C24_Witness ==
    /\ local_complete = "incomplete"
    /\ local_size = 1
    /\ requested = {2}
    /\ RemoteCalls(calls) = DownloadOrder \o <<"export", "export">>
    /\ rcvResult = "Ok"

\* C25: with an indicator, the offsets of the Progress items (1, 2, ... in
\* stream order) are, in order and without a gap, those already applied to
\* the indicator, those in the channel and the one being sent; the
\* indicator stands at local_size + the last offset applied; once
\* download_blob has returned Ok every offset was applied and the indicator
\* finished.
C25_ProgressRelayed ==
    (rcv_mp /\ Called("get")) =>
        /\ rcvPc # "failed" =>
              /\ relay = [i \in 1..Len(relay) |-> dl_bar.updates + i]
              /\ dl_bar.updates + Len(relay) + (IF pending # 0 THEN 1 ELSE 0) = fetched
              /\ pending # 0 => pending = fetched
        /\ dl_bar.updates >= 1 =>
              /\ dl_bar.pos = local_size + dl_bar.updates
              /\ task_current = dl_bar.pos
        /\ Called("settle") =>
              /\ dl_bar.updates = fetched
              /\ relay = <<>>
              /\ dl_bar.finished
              /\ progress_task = "finished"

\* More items than the channel holds were relayed on top of one held byte,
\* and download_blob returned.
C25_Witness ==
    /\ rcv_mp
    /\ Called("settle")
    /\ local_size = 1
    /\ fetched = MaxProgress
    /\ dl_bar.updates = MaxProgress
    /\ dl_bar.pos = 1 + MaxProgress
    /\ dl_bar.finished

\* The export of collection entry k was attempted and did not write its
\* file: its stream yielded an Error item, or ended without Done.
ExportFailedAt(k) ==
    /\ k \in 1..Len(rcv_collection)
    /\ \/ k < exp_idx /\ rcv_collection[k] \notin exported
       \/ k = exp_idx /\ rcv_error = "export"

\* C27: when receive_from_ticket has returned and the export of entry k had
\* failed, the return is Err and no entry after k was written.
C27_ExportFailureStops ==
    \A k \in 1..Len(rcv_collection) :
        (rcvPc \in {"done", "failed"} /\ ExportFailedAt(k)) =>
            /\ rcvResult = "Err"
            /\ rcv_error = "export"
            /\ \A j \in (k + 1)..Len(rcv_collection) :
                  rcv_collection[j] \notin exported

\* The text ensure_gitignore_has_agentbeam_pattern reads: an absent file
\* reads as the empty text.
IgnoreRead == IF gitignore_exists THEN gitignore ELSE <<>>

IgnorePatterns == {<<Pattern>>, <<Pattern, "/">>}

\* A line of the text is the pattern, with or without the slash.
HasEqualLine(text) ==
    \E i \in 1..Len(Lines(text)) : Lines(text)[i] \in IgnorePatterns

\* A line of the text is the pattern once the white space around it is
\* trimmed.
HasTrimmedLine(text) ==
    \E i \in 1..Len(Lines(text)) : TrimLine(Lines(text)[i]) \in IgnorePatterns

\* `after` is `before` with the comment line and the pattern line added
\* once at its end: everything of `before` is kept as it was, its last
\* line is ended if it was not, and an empty line separates old from new.
AppendedOnce(before, after) ==
    LET ended == IF before # <<>> /\ Last(before) # "\n"
                 THEN before \o <<"\n">> ELSE before
        gap == IF before = <<>> THEN <<>> ELSE <<"\n">>
    IN  /\ after = ended \o gap \o <<IgnoreComment, "\n", Pattern, "\n">>
        /\ SubSeq(after, 1, Len(before)) = before
        /\ Len(Lines(after)) = Len(Lines(before)) + Len(gap) + 2
        /\ Lines(after)[Len(Lines(after))] = <<Pattern>>

IgnoreFileUnchanged ==
    /\ gitignore' = gitignore
    /\ gitignore_exists' = gitignore_exists
    /\ gi_writes' = gi_writes

C33_FirstCloseAfterConnectEnds ==
    [][ /\ (Consumed /\ Last(log').type = "ConnectionClosed") =>
            /\ monPc' = "grace" <=>
                  \E i \in 1..Len(log) : log[i].type = "ClientConnected"
            /\ active_transfers' = active_transfers
            /\ transfer_bars' = transfer_bars
        /\ monPc # "recv" => ~Consumed
        /\ monPc = "grace" => (monPc' = "done" /\ monResult' = "Ok")
      ]_vars

\* Peer 1 connected, a transfer started, and the closure of another
\* connection ended the monitor with the transfer still active.
C33_Witness ==
    /\ Len(log) = 3
    /\ log[1] = [type |-> "ClientConnected", connection_id |-> 1]
    /\ IsType(2, "TransferStarted")
    /\ log[3] = [type |-> "ConnectionClosed", connection_id |-> 2]
    /\ active_transfers # {}
    /\ monPc = "done"
    /\ monExit = "ConnectionClosed"

\* C34: with an indicator sink the ids that have an indicator are the
\* active ids; the id of a TransferStarted just consumed is in both, the id
\* of a TransferCompleted or TransferAborted just consumed is in neither.
C34_BarsMatchActive ==
    mp =>
        /\ DOMAIN transfer_bars = active_transfers
        /\ log # <<>> =>
              LET e == Last(log)
              IN  /\ e.type = "TransferStarted" =>
                        /\ e.request_id \in active_transfers
                        /\ e.request_id \in DOMAIN transfer_bars
                  /\ e.type \in {"TransferCompleted", "TransferAborted"} =>
                        /\ e.request_id \notin active_transfers
                        /\ e.request_id \notin DOMAIN transfer_bars

\* Two transfers started and one completed: the other is active with its
\* indicator.
C34_Witness ==
    /\ mp
    /\ Len(log) = 3
    /\ IsType(1, "TransferStarted")
    /\ IsType(2, "TransferStarted")
    /\ IsType(3, "TransferCompleted")
    /\ log[1].request_id # log[2].request_id
    /\ log[3].request_id = log[1].request_id
    /\ active_transfers = {log[2].request_id}
    /\ DOMAIN transfer_bars = {log[2].request_id}

\* C35: a TransferProgress event for an id with an indicator sets that
\* indicator's position to end_offset and nothing else; for an id without
\* one it changes nothing.  The active set, the connected flag, the closed
\* indicators and the loop are untouched in both cases.
C35_ProgressIsLocal ==
    [][ (Consumed /\ Last(log').type = "TransferProgress") =>
            LET e == Last(log')
            IN  /\ DOMAIN transfer_bars' = DOMAIN transfer_bars
                /\ \A k \in DOMAIN transfer_bars :
                      IF k = e.request_id
                      THEN /\ transfer_bars'[k].pos = e.end_offset
                           /\ transfer_bars'[k].len = transfer_bars[k].len
                      ELSE transfer_bars'[k] = transfer_bars[k]
                /\ active_transfers' = active_transfers
                /\ connected' = connected
                /\ finished_bars' = finished_bars
                /\ permits' = permits
                /\ monPc' = monPc
                /\ monResult' = monResult
      ]_vars

\* A transfer's indicator went to offset 2 and then back to the absolute
\* offset 1.
C35_Witness ==
    /\ mp
    /\ Len(log) = 3
    /\ IsType(1, "TransferStarted")
    /\ log[2] = [type |-> "TransferProgress", request_id |-> log[1].request_id, end_offset |-> 2]
    /\ log[3] = [type |-> "TransferProgress", request_id |-> log[1].request_id, end_offset |-> 1]
    /\ transfer_bars[log[1].request_id].pos = 1

\* C36: when the fetch stream has ended without Done and without Error,
\* download_blob does not fail: the statistics are the default ones, no
\* stream error is returned, and the receiver goes on to the settling delay
\* and the collection load (and to the exports when the load succeeds); an
\* error it returns afterwards is one of the load or of an export.
C36_StreamEndWithoutDone ==
    /\ [](fetch_end = "None" =>
            /\ stats = "default"
            /\ rcv_error \in {"none", "load", "export"}
            /\ rcvPc \in {"join", "load", "export", "done", "failed"}
            /\ rcvPc # "join" => Called("settle")
            /\ rcvPc \in {"export", "done", "failed"} => Called("load")
            /\ Called("export") => rcv_collection # <<>>)
    /\ (fetch_end = "None") ~> (Called("settle") /\ Called("load"))

\* The stream ended after one Progress item without Done; the receiver
\* settled, loaded the collection and exported its two entries.
C36_Witness ==
    /\ fetch_end = "None"
    /\ fetched = 1
    /\ stats = "default"
    /\ rcvResult = "Ok"
    /\ RemoteCalls(calls) = DownloadOrder \o <<"export", "export">>

\* beam_session has spawned the router and printed the ticket.
Serving == role = "sender" /\ serve_log # <<>>

\* monitor_until_complete has returned.
MonitorReturned == \E i \in 1..Len(serve_log) : serve_log[i] = "monitor"

\* C38: while monitor_until_complete runs the endpoint is bound, the guard
\* is held and remove_dir_all was never called, so the scratch directory
\* changes only when something outside the program removes it; in a run
\* that serves, the endpoint is closed only after the monitor returned, and
\* the guard is dropped (the directory removed) only after the monitor
\* returned and the endpoint was closed.
C38_TeardownAfterMonitor ==
    [][ /\ runPc' = "monitor" =>
              /\ endpoint' = "bound"
              /\ temp_dir_guard' = "held"
              /\ remove_calls' = 0
        /\ (runPc = "monitor" /\ temp_dir' # temp_dir) => ExternalRemove
        /\ (Serving /\ endpoint' # endpoint) =>
              (MonitorReturned /\ endpoint' = "closed")
        /\ (Serving /\ (Teardown \/ remove_calls' # remove_calls)) =>
              (MonitorReturned /\ endpoint = "closed")
      ]_vars

\* A sender served, its monitor returned, and shutdown closed the endpoint
\* and removed the directory.
C38_Witness ==
    /\ role = "sender"
    /\ serve_log = <<"accept", "ticket", "monitor">>
    /\ runPc = "done"
    /\ run_result = "Ok"
    /\ endpoint = "closed"
    /\ temp_dir_guard = "dropped"
    /\ remove_calls = 1
    /\ temp_dir = "absent"

\* C37: the session is restored only after receive_from_ticket returned
\* Ok, and only when the metadata names a claude_session and the session
\* log is in the target; a receiver whose metadata names a session without
\* the log restores nothing and its run returns Ok.
C37_RestoreOnlyWithLog ==
    role = "receiver" =>
        /\ session_restored =>
              /\ runPc \in {"git", "close", "shutdown", "done"}
              /\ run_error \notin {"store", "bind", "receive", "metadata", "restore"}
              /\ meta_session = "Some"
              /\ session_source
        /\ (meta_session = "Some" /\ ~session_source) => ~session_restored
        /\ (meta_session = "Some" /\ ~session_source /\ runPc = "done") =>
              run_result = "Ok"

\* The path names a file below the extraction target.
InsideTarget(path) ==
    /\ Len(path) > Len(TargetDir)
    /\ SubSeq(path, 1, Len(TargetDir)) = TargetDir

\* C31: every file export_collection has written lies inside the
\* extraction target directory, whatever the entry names of the collection.
C31_ExportStaysInTarget ==
    \A path \in written : InsideTarget(path)

\* C32: no restore changes or removes a log file that was in the session
\* directory before it began, whatever its id.
C32_RestoreNeverOverwrites ==
    [][ \A id \in DOMAIN session_dir :
            /\ id \in DOMAIN session_dir'
            /\ session_dir'[id] = session_dir[id]
      ]_vars

\* The lines of the source log that are not blank, in order.
KeptLines == SelectSeq(source_log, LAMBDA l : ~IsBlank(l))

\* C39: the log a successful restore has written holds one record for each
\* line of the source that is not blank, in the source's order; a record is
\* the source's record (same kind of value, same other fields) and its
\* top-level sessionId is the new id when the source record is an object
\* that has the field, and is as in the source (absent included) otherwise.
C39_OnlySessionIdChanges ==
    (rst_result = "Ok" /\ restores >= 1) =>
        /\ new_session_id \in DOMAIN session_dir
        /\ LET out == session_dir[new_session_id]
           IN  /\ Len(out) = Len(KeptLines)
               /\ \A i \in 1..Len(out) :
                     /\ out[i].kind = KeptLines[i].kind
                     /\ out[i].payload = KeptLines[i].payload
                     /\ out[i].sessionId =
                           IF /\ KeptLines[i].kind = "object"
                              /\ KeptLines[i].sessionId # "absent"
                           THEN new_session_id
                           ELSE KeptLines[i].sessionId
        /\ \A l \in {source_log[i] : i \in 1..Len(source_log)} : ~IsMalformed(l)

\* A log with a record of another session, a blank line and an object
\* without the field was restored: two records, the first with the new id,
\* the second still without a sessionId.
C39_Witness ==
    /\ rst_result = "Ok"
    /\ restores = 1
    /\ Len(source_log) = 3
    /\ source_log[1].sessionId = "s0"
    /\ IsBlank(source_log[2])
    /\ source_log[3].kind = "object" /\ source_log[3].sessionId = "absent"
    /\ Len(session_dir[new_session_id]) = 2
    /\ session_dir[new_session_id][1].sessionId = new_session_id
    /\ session_dir[new_session_id][2].sessionId = "absent"

====
